---------------------------- MODULE Spec2Model ----------------------------
(***************************************************************************)
(* A model of frappe/database/query.py: Engine.get_query and the methods   *)
(* it calls.  One call of get_query is a run through the positions of pc;  *)
(* each action is one statement group of get_query together with every     *)
(* method that statement calls.                                            *)
(*                                                                         *)
(* Python strings are sequences of one-character strings, so that the      *)
(* regular expressions, str.split, str.strip and the other text operations *)
(* of the source are computed on the characters, as the code computes them.*)
(*                                                                         *)
(* A value that a method computes once and reads several times is passed   *)
(* to an operator that stands for the rest of the method, so a method of   *)
(* the source is often two or three operators here.                        *)
(***************************************************************************)
EXTENDS Integers, Sequences, FiniteSets, TLC

VARIABLES
    pc,         \* position of the running get_query call
    self,       \* the attributes of the Engine object
    args,       \* the arguments of the call that the code has read so far
    env,        \* what the collaborators answered during the call
    exception,  \* the exception the call raised, "none" while it has raised none
    result,     \* the object the call returned, NoQuery while it has returned none
    log,        \* the calls and AST mutations of the call, in order
    other       \* the suspended get_query call of a second thread on the same
                \* Engine object, NoCall when the engine has one caller

vars == <<pc, self, args, env, exception, result, log, other>>

---------------------------------------------------------------------------
(* Characters and the text operations of Python the source uses.           *)

Digits == {"0","1","2","3","4","5","6","7","8","9"}

\* \w under re.ASCII
WordChars ==
    {"a","b","c","d","e","f","g","h","i","j","k","l","m",
     "n","o","p","q","r","s","t","u","v","w","x","y","z",
     "A","B","C","D","E","F","G","H","I","J","K","L","M",
     "N","O","P","Q","R","S","T","U","V","W","X","Y","Z", "_"} \cup Digits

\* \s, and the characters str.strip() and str.split() treat as whitespace
Whitespace == {" ", "\t", "\n", "\r", "\f"}

\* the backtick: one character, written as a word because a TLA+ string cannot hold it
BT == "BACKTICK"

Quotes == {BT, "\""}

Range(seq) == {seq[i] : i \in 1..Len(seq)}

\* the least element of a set of numbers, or default when the set is empty
MinOr(S, default) == IF S = {} THEN default ELSE CHOOSE i \in S : \A j \in S : i <= j

IsWord(s) == Len(s) > 0 /\ \A i \in 1..Len(s) : s[i] \in WordChars

\* str.isdigit()
IsDigit(s) == Len(s) > 0 /\ \A i \in 1..Len(s) : s[i] \in Digits

Sub(s, i, j) == IF i > j THEN <<>> ELSE SubSeq(s, i, j)

\* s[i:] starts with t
StartsAt(s, i, t) ==
    /\ i >= 1
    /\ i + Len(t) - 1 <= Len(s)
    /\ \A k \in 1..Len(t) : s[i + k - 1] = t[k]

\* t in s
Contains(s, t) == \E i \in 1..(Len(s) + 1) : StartsAt(s, i, t)

\* s.find(t), 1-based; 0 when t is not in s
Find(s, t) == MinOr({i \in 1..(Len(s) + 1) : StartsAt(s, i, t)}, 0)

\* s without its first character when that is in chars
DropFirst(s, chars) == IF Len(s) > 0 /\ s[1] \in chars THEN Tail(s) ELSE s

\* s without its last character when that is in chars
DropLast(s, chars) ==
    IF Len(s) > 0 /\ s[Len(s)] \in chars THEN Sub(s, 1, Len(s) - 1) ELSE s

\* str.lstrip(chars), str.rstrip(chars), str.strip(chars)
RECURSIVE LStripChars(_, _)
LStripChars(s, chars) ==
    IF Len(s) > 0 /\ s[1] \in chars THEN LStripChars(Tail(s), chars) ELSE s

RECURSIVE RStripChars(_, _)
RStripChars(s, chars) ==
    IF Len(s) > 0 /\ s[Len(s)] \in chars
    THEN RStripChars(Sub(s, 1, Len(s) - 1), chars)
    ELSE s

\* str.strip()
Strip(s) == LStripChars(RStripChars(s, Whitespace), Whitespace)

\* str.split(sep) for a non-empty separator: empty pieces are kept
RECURSIVE Split(_, _)
RECURSIVE SplitAt(_, _, _)
SplitAt(s, sep, i) ==
    IF i = 0
    THEN <<s>>
    ELSE <<Sub(s, 1, i - 1)>> \o Split(Sub(s, i + Len(sep), Len(s)), sep)

Split(s, sep) == SplitAt(s, sep, Find(s, sep))

\* the index of the first whitespace character of s, Len(s) + 1 when none
FirstWhitespace(s) == MinOr({i \in 1..Len(s) : s[i] \in Whitespace}, Len(s) + 1)

\* str.split() without a separator: runs of whitespace separate, no empty piece
RECURSIVE SplitWhitespace(_)
RECURSIVE SplitStripped(_, _)
SplitStripped(t, w) ==
    IF Len(t) = 0 THEN <<>>
    ELSE <<Sub(t, 1, w - 1)>> \o SplitWhitespace(Sub(t, w, Len(t)))

SplitWhitespace(s) ==
    SplitStripped(LStripChars(s, Whitespace), FirstWhitespace(LStripChars(s, Whitespace)))

LowerChar(c) ==
    CASE c = "A" -> "a" [] c = "B" -> "b" [] c = "C" -> "c" [] c = "D" -> "d"
      [] c = "E" -> "e" [] c = "F" -> "f" [] c = "G" -> "g" [] c = "H" -> "h"
      [] c = "I" -> "i" [] c = "J" -> "j" [] c = "K" -> "k" [] c = "L" -> "l"
      [] c = "M" -> "m" [] c = "N" -> "n" [] c = "O" -> "o" [] c = "P" -> "p"
      [] c = "Q" -> "q" [] c = "R" -> "r" [] c = "S" -> "s" [] c = "T" -> "t"
      [] c = "U" -> "u" [] c = "V" -> "v" [] c = "W" -> "w" [] c = "X" -> "x"
      [] c = "Y" -> "y" [] c = "Z" -> "z" [] OTHER -> c

\* str.lower()
Lower(s) == [i \in 1..Len(s) |-> LowerChar(s[i])]

\* $ of a Python regular expression also matches before one final newline:
\* the strings a pattern ending in $ is matched against
UpToEnd(s) == {s, DropLast(s, {"\n"})}

---------------------------------------------------------------------------
(* The regular expressions of the module.                                  *)

\* `?\w+`? against the whole of s
QuotedWord(s) == IsWord(DropLast(DropFirst(s, {BT}), {BT}))

\* (?:`?\w+`?\.)?(`?\w+`?|\w+) against the whole of s, dot its first "."
QualifiedNameAt(s, dot) ==
    IF dot = 0
    THEN QuotedWord(s)
    ELSE /\ QuotedWord(Sub(s, 1, dot - 1))
         /\ QuotedWord(Sub(s, dot + 1, Len(s)))

QualifiedName(s) == QualifiedNameAt(s, Find(s, <<".">>))

\* \s+as\s+\w+ against the whole of s, parts its whitespace-separated pieces
AliasParts(s, parts, ignorecase) ==
    /\ s[1] \in Whitespace
    /\ s[Len(s)] \notin Whitespace
    /\ Len(parts) = 2
    /\ (IF ignorecase THEN Lower(parts[1]) ELSE parts[1]) = <<"a", "s">>
    /\ IsWord(parts[2])

\* (?:\s+as\s+\w+)? against the whole of s; ignorecase is re.IGNORECASE
OptionalAlias(s, ignorecase) ==
    IF s = <<>> THEN TRUE ELSE AliasParts(s, SplitWhitespace(s), ignorecase)

\* a qualified name up to w, an optional alias from w
NameThenAlias(t, w) ==
    /\ QualifiedName(Sub(t, 1, w - 1))
    /\ OptionalAlias(Sub(t, w, Len(t)), FALSE)

\* TABLE_NAME_PATTERN = ^[\w -]*$
TABLE_NAME_PATTERN(s) ==
    \E t \in UpToEnd(s) : \A i \in 1..Len(t) : t[i] \in WordChars \cup {" ", "-"}

\* ALLOWED_FIELD_PATTERN = ^(?:`?\w+`?\.)?(`?\w+`?|\w+)(?:\s+as\s+\w+)?$
ALLOWED_FIELD_PATTERN(s) ==
    \E t \in UpToEnd(s) : NameThenAlias(t, FirstWhitespace(t))

\* FUNCTION_CALL_PATTERN = ^\w+\(.*\)(?:\s+as\s+\w+)?$   (. matches no newline)
FUNCTION_CALL_PATTERN(s) ==
    \E t \in UpToEnd(s) :
        \E open \in 1..Len(t) : \E close \in (open + 1)..Len(t) :
            /\ IsWord(Sub(t, 1, open - 1))
            /\ t[open] = "("
            /\ t[close] = ")"
            /\ \A i \in (open + 1)..(close - 1) : t[i] # "\n"
            /\ OptionalAlias(Sub(t, close + 1, Len(t)), TRUE)

\* ALLOWED_SQL_FIELD_PATTERN = ^(?:`?\w+`?\.)?(`?\w+`?|\w+)$
ALLOWED_SQL_FIELD_PATTERN(s) == \E t \in UpToEnd(s) : QualifiedName(t)

\* SPECIAL_CHAR_PATTERN.search(s): s holds a character that is not \w
SPECIAL_CHAR_PATTERN(s) == \E i \in 1..Len(s) : s[i] \notin WordChars

---------------------------------------------------------------------------
(* Values.  Every value of one family has one record shape, so that any    *)
(* two of them can be compared.                                            *)

\* a Python value an argument can hold: t is "none", "bool", "int", "float",
\* "str" or "list"; s is the text of a str, n the number of a bool, an int or
\* a float, l the items of a list
Py(t, s, n, l) == [t |-> t, s |-> s, n |-> n, l |-> l]

PyNone == Py("none", <<>>, 0, <<>>)

\* bool(v)
Truthy(v) ==
    CASE v.t = "none" -> FALSE
      [] v.t = "str" -> v.s # <<>>
      [] v.t = "list" -> v.l # <<>>
      [] OTHER -> v.n # 0

\* what a call returned, or the exception it raised.  val is a list of
\* objects (empty for None) or the engine the call left
Returned(val) == [exc |-> "none", val |-> val]
Raised(exc, val) == [exc |-> exc, val |-> val]

\* the first of two results that raised, else both values joined
Then(first, second) ==
    IF first.exc # "none" THEN first
    ELSE IF second.exc # "none" THEN second
    ELSE Returned(first.val \o second.val)

\* the results of a loop: the first exception, else the values joined
RECURSIVE Collect(_)
Collect(results) ==
    IF results = <<>> THEN Returned(<<>>)
    ELSE Then(Head(results), Collect(Tail(results)))

---------------------------------------------------------------------------
(* The entities of the site the model runs against, as the metadata        *)
(* service describes them.                                                 *)

Task == <<"T", "a", "s", "k">>
User == <<"U", "s", "e", "r">>
Project == <<"P", "r", "o", "j", "e", "c", "t">>
Subtask == <<"S", "u", "b", "t", "a", "s", "k">>

\* the column names and other texts the model uses
Col ==
    [name |-> <<"n", "a", "m", "e">>, owner |-> <<"o", "w", "n", "e", "r">>, status |-> <<"s", "t", "a", "t", "u", "s">>,
     assigned_to |-> <<"a", "s", "s", "i", "g", "n", "e", "d", "_", "t", "o">>, project |-> <<"p", "r", "o", "j", "e", "c", "t">>,
     items |-> <<"i", "t", "e", "m", "s">>, email |-> <<"e", "m", "a", "i", "l">>, qty |-> <<"q", "t", "y">>,
     star |-> <<"*">>, tab |-> <<"t", "a", "b">>, as |-> <<" ", "a", "s", " ">>, dot |-> <<".">>,
     in |-> <<"i", "n">>, not_in |-> <<"n", "o", "t", " ", "i", "n">>, eq |-> <<"=">>, asc |-> <<"a", "s", "c">>,
     desc |-> <<"d", "e", "s", "c">>, empty |-> <<>>]

\* frappe.model.table_fields
table_fields == {"Table", "Table MultiSelect"}

\* meta.get_field of a field the entity does not have: Python's None
NoField ==
    [fieldname |-> <<>>, fieldtype |-> "", options |-> <<>>,
     ignore_user_permissions |-> FALSE]

\* frappe.get_meta(doctype).fields
MetaFields(doctype) ==
    IF doctype = Task
    THEN <<[NoField EXCEPT !.fieldname = Col.status, !.fieldtype = "Data"],
           [NoField EXCEPT !.fieldname = Col.assigned_to, !.fieldtype = "Link",
                           !.options = User],
           [NoField EXCEPT !.fieldname = Col.project, !.fieldtype = "Link",
                           !.options = Project, !.ignore_user_permissions = TRUE],
           [NoField EXCEPT !.fieldname = <<"m", "a", "n", "a", "g", "e", "r">>, !.fieldtype = "Link",
                           !.options = User, !.ignore_user_permissions = TRUE],
           [NoField EXCEPT !.fieldname = Col.items, !.fieldtype = "Table",
                           !.options = Subtask]>>
    ELSE IF doctype = Subtask
    THEN <<[NoField EXCEPT !.fieldname = Col.qty, !.fieldtype = "Data"]>>
    ELSE IF doctype = User
    THEN <<[NoField EXCEPT !.fieldname = Col.email, !.fieldtype = "Data"]>>
    ELSE <<>>

\* frappe.get_meta(doctype).get_field(fieldname)
get_field(doctype, fieldname) ==
    LET found == SelectSeq(MetaFields(doctype), LAMBDA df : df.fieldname = fieldname)
    IN  IF found = <<>> THEN NoField ELSE found[1]

\* frappe.get_meta(doctype).get_link_fields()
get_link_fields(doctype) ==
    SelectSeq(MetaFields(doctype), LAMBDA df : df.fieldtype = "Link")

\* frappe.get_meta(doctype).istable
istable(doctype) == doctype = Subtask

\* frappe.qb.DocType(name): the table of an entity
DocType(name) == IF StartsAt(name, 1, <<"_", "_">>) THEN name ELSE Col.tab \o name

---------------------------------------------------------------------------
(* The objects a field specification parses to: pypika Field, Function and *)
(* Criterion terms, LinkTableField, ChildTableField and ChildQuery.  One   *)
(* record shape holds the attributes of all of them; an attribute a class  *)
(* does not have is empty.                                                 *)

Obj ==
    [kind |-> "", table |-> <<>>, name |-> <<>>, alias |-> <<>>,
     doctype |-> <<>>, fieldname |-> <<>>, parent_doctype |-> <<>>,
     link_fieldname |-> <<>>, parent_fieldname |-> <<>>, fields |-> <<>>,
     initialized |-> TRUE]

\* pypika: table[name], optionally .as_(alias)
Field(table, name, alias) ==
    [Obj EXCEPT !.kind = "Field", !.table = table, !.name = name, !.alias = alias]

\* LinkTableField.__init__
LinkTableField(doctype, fieldname, parent_doctype, link_fieldname, alias) ==
    [Obj EXCEPT !.kind = "LinkTableField", !.doctype = doctype,
                !.fieldname = fieldname, !.parent_doctype = parent_doctype,
                !.link_fieldname = link_fieldname, !.alias = alias,
                !.table = DocType(doctype), !.name = fieldname]

\* ChildTableField.__init__
ChildTableField(doctype, fieldname, parent_doctype, parent_fieldname, alias) ==
    [Obj EXCEPT !.kind = "ChildTableField", !.doctype = doctype,
                !.fieldname = fieldname, !.parent_doctype = parent_doctype,
                !.parent_fieldname = parent_fieldname, !.alias = alias,
                !.table = DocType(doctype), !.name = fieldname]

\* ChildQuery.__init__ once the metadata field is read: a field the metadata
\* does not know raises, a field that is no child collection leaves the
\* object without attributes
ChildQueryOf(field, fieldname, fields, parent_doctype) ==
    IF field = NoField
    THEN Raised("AttributeError", <<>>)
    ELSE IF field.fieldtype \notin table_fields
    THEN Returned(<<[Obj EXCEPT !.kind = "ChildQuery", !.initialized = FALSE]>>)
    ELSE Returned(<<[Obj EXCEPT !.kind = "ChildQuery", !.fieldname = fieldname,
                                !.fields = fields,
                                !.parent_doctype = parent_doctype,
                                !.doctype = field.options]>>)

ChildQuery(fieldname, fields, parent_doctype) ==
    ChildQueryOf(get_field(parent_doctype, fieldname), fieldname, fields,
                 parent_doctype)

\* re.search(r'([`"])tab(.+?)\1.\1(.+)\1', s): the matches <<p, i, k>> that
\* start at p, whose first group ends before i and whose last quote is at k
QuotedTableMatches(s) ==
    {m \in (1..Len(s)) \X (1..Len(s)) \X (1..Len(s)) :
        /\ s[m[1]] \in Quotes
        /\ StartsAt(s, m[1] + 1, Col.tab)
        /\ m[2] >= m[1] + 5
        /\ m[2] + 2 <= Len(s)
        /\ s[m[2]] = s[m[1]] /\ s[m[2] + 2] = s[m[1]]
        /\ s[m[2] + 1] # "\n"
        /\ m[3] >= m[2] + 4
        /\ s[m[3]] = s[m[1]]
        /\ \A j \in (m[1] + 4)..(m[3] - 1) : s[j] # "\n"}

\* the match re.search returns: leftmost start, lazy first group, greedy last
QuotedTableSearch(ms) ==
    CHOOSE m \in ms :
        \A o \in ms :
            \/ m[1] < o[1]
            \/ m[1] = o[1] /\ m[2] < o[2]
            \/ m[1] = o[1] /\ m[2] = o[2] /\ m[3] >= o[3]

\* DynamicTableField.parse, the branch of a quoted child table: ms are the
\* matches of the regular expression, none is Python's None
ParseQuoted(field, ms, doctype, alias) ==
    IF ms = {}
    THEN Raised("AttributeError", <<>>)
    ELSE IF Sub(field, QuotedTableSearch(ms)[1] + 4, QuotedTableSearch(ms)[2] - 1) = doctype
    THEN Returned(<<>>)
    ELSE Returned(<<ChildTableField(
            Sub(field, QuotedTableSearch(ms)[1] + 4, QuotedTableSearch(ms)[2] - 1),
            Sub(field, QuotedTableSearch(ms)[2] + 3, QuotedTableSearch(ms)[3] - 1),
            doctype, <<>>, alias)>>)

\* DynamicTableField.parse, the branch of linked_fieldname.fieldname
ParseDotted(dotted, linked_field, doctype, alias) ==
    IF Len(dotted) # 2
    THEN Raised("ValueError", <<>>)
    ELSE IF linked_field = NoField
    THEN Raised("AttributeError", <<>>)
    ELSE IF linked_field.fieldtype = "Link"
    THEN Returned(<<LinkTableField(linked_field.options, dotted[2], doctype,
                                   dotted[1], alias)>>)
    ELSE IF linked_field.fieldtype \in table_fields
    THEN Returned(<<ChildTableField(linked_field.options, dotted[2], doctype,
                                    dotted[1], alias)>>)
    ELSE Returned(<<>>)

\* DynamicTableField.parse after field.split(" as "): pieces is the field and
\* the alias
ParsePieces(pieces, doctype) ==
    IF Len(pieces) # 2
    THEN Raised("ValueError", <<>>)
    ELSE IF pieces[1] # <<>> /\ pieces[1][1] \in Quotes /\ StartsAt(pieces[1], 2, Col.tab)
    THEN ParseQuoted(pieces[1], QuotedTableMatches(pieces[1]), doctype, pieces[2])
    ELSE ParseDotted(Split(pieces[1], Col.dot),
                     get_field(doctype, Split(pieces[1], Col.dot)[1]),
                     doctype, pieces[2])

\* DynamicTableField.parse: the field object, nothing for None
DynamicTableField_parse(field, doctype) ==
    IF ~Contains(field, Col.dot)
    THEN Returned(<<>>)
    ELSE ParsePieces(IF Contains(field, Col.as) THEN Split(field, Col.as)
                     ELSE <<field, <<>>>>,
                     doctype)

---------------------------------------------------------------------------
(* Field parsing: parse_fields and what it calls.                          *)

\* [f(x) for x in seq]
Map(f(_), seq) == [i \in 1..Len(seq) |-> f(seq[i])]

\* a field specification, an item of one, or an entry of a mapping item:
\*   the fields argument: t is "none", "str", "list" or "other"; s is the
\*     text of a str, items the items of a list
\*   an item: t is "str", "dict", "criterion" or "other"; s is the text of a
\*     str, items the entries of a dict
\*   an entry: s is the key, t is "list" when the value is a list or a tuple,
\*     items the strings of the value, each as a str item
FieldArg(t, s, items) == [t |-> t, s |-> s, items |-> items]

\* SQL_FUNCTIONS: the names of frappe.query_builder.functions.SqlFunctions
\* the model uses, each followed by "("
SQL_FUNCTIONS == {<<"c", "o", "u", "n", "t", "(">>, <<"s", "u", "m", "(">>, <<"m", "a", "x", "(">>}

\* has_function
has_function(field) ==
    \E func \in SQL_FUNCTIONS :
        Contains(IF BT \notin Range(field) THEN Lower(field) ELSE field, func)

\* a comma COMMA_PATTERN = ,\s*(?![^()]*\)) splits at: one that is not inside
\* parentheses, i.e. the first parenthesis after it is not a closing one
IsSplitComma(s, i) ==
    /\ s[i] = ","
    /\ \A j \in (i + 1)..Len(s) :
        s[j] = ")" => \E k \in (i + 1)..(j - 1) : s[k] \in {"(", ")"}

\* COMMA_PATTERN.split(s); i is the first comma it splits at, 0 when none
RECURSIVE COMMA_PATTERN_split(_)
RECURSIVE CommaSplitAt(_, _)
CommaSplitAt(s, i) ==
    IF i = 0 THEN <<s>>
    ELSE <<Sub(s, 1, i - 1)>>
         \o COMMA_PATTERN_split(LStripChars(Sub(s, i + 1, Len(s)), Whitespace))

COMMA_PATTERN_split(s) ==
    CommaSplitAt(s, MinOr({i \in 1..Len(s) : IsSplitComma(s, i)}, 0))

\* _validate_select_field: TRUE when the field is accepted
_validate_select_field_mutant(field) == TRUE

_validate_select_field(field) ==
    \/ field = Col.star
    \/ IsDigit(field)
    \/ ALLOWED_FIELD_PATTERN(field)
    \/ FUNCTION_CALL_PATTERN(field)

\* sqlparse.format(field, strip_comments=True): the text before a -- comment
strip_comments(field) == Sub(field, 1, MinOr({Find(field, <<"-", "-">>) - 1} \ {-1}, Len(field)))

\* _sanitize_field: the sanitized string
_sanitize_field(field) ==
    IF ~_validate_select_field(field)
    THEN Raised("PermissionError", <<>>)
    ELSE Returned(<<Strip(strip_comments(field))>>)

\* \s+as\s+ under re.IGNORECASE matches from i
AsSeparatorAt(s, i) ==
    /\ s[i] \in Whitespace
    /\ Len(LStripChars(Sub(s, i, Len(s)), Whitespace)) >= 3
    /\ Lower(Sub(LStripChars(Sub(s, i, Len(s)), Whitespace), 1, 2)) = <<"a", "s">>
    /\ LStripChars(Sub(s, i, Len(s)), Whitespace)[3] \in Whitespace

\* re.split(r"\s+as\s+", s, flags=re.IGNORECASE); i is where the first
\* separator starts, 0 when there is none
RECURSIVE re_split_as(_)
RECURSIVE AsSplitAt(_, _)
AsSplitAt(s, i) ==
    IF i = 0 THEN <<s>>
    ELSE <<Sub(s, 1, i - 1)>>
         \o re_split_as(LStripChars(
                Tail(Tail(LStripChars(Sub(s, i, Len(s)), Whitespace))), Whitespace))

re_split_as(s) == AsSplitAt(s, MinOr({i \in 1..Len(s) : AsSeparatorAt(s, i)}, 0))

\* [`\"]?(\w+)[`\"]? against the whole of s: the word, <<>> when no match
OptionallyQuoted(s) ==
    IF IsWord(DropLast(DropFirst(s, Quotes), Quotes))
    THEN DropLast(DropFirst(s, Quotes), Quotes)
    ELSE <<>>

\* FIELD_PARSE_REGEX = ^(?:[`\"]?(tab\w+)[`\"]?\.)?[`\"]?(\w+)[`\"]?$ against
\* s up to dot, its first ".": the groups (table name, field name); no match
\* when the field name is empty
FieldParseAt(s, dot) ==
    IF dot = 0
    THEN <<<<>>, OptionallyQuoted(s)>>
    ELSE IF /\ StartsAt(OptionallyQuoted(Sub(s, 1, dot - 1)), 1, Col.tab)
            /\ Len(OptionallyQuoted(Sub(s, 1, dot - 1))) > 3
    THEN <<OptionallyQuoted(Sub(s, 1, dot - 1)), OptionallyQuoted(Sub(s, dot + 1, Len(s)))>>
    ELSE <<<<>>, <<>>>>

\* FIELD_PARSE_REGEX.match(s).groups(); $ also matches before a final newline
FIELD_PARSE_REGEX(s) ==
    FieldParseAt(DropLast(s, {"\n"}), Find(DropLast(s, {"\n"}), Col.dot))

\* Engine.parse_string_field, lines 369-376: the field part and the alias
FieldAndAlias(field) ==
    IF Contains(Lower(field), Col.as) /\ Len(re_split_as(field)) > 1
    THEN <<Strip(re_split_as(field)[1]),
           LStripChars(RStripChars(Strip(re_split_as(field)[2]), Quotes), Quotes)>>
    ELSE <<field, <<>>>>

\* Engine.parse_string_field, lines 378-396: groups are the groups of the
\* match of the field part
FieldOfGroups(me, groups, alias) ==
    IF groups[2] = <<>>
    THEN Raised("ValidationError", <<>>)
    ELSE IF groups[1] # <<>>
    THEN Returned(<<Field(DocType(groups[1]), groups[2], alias)>>)
    ELSE Returned(<<Field(me.table, groups[2], alias)>>)

\* Engine.parse_string_field
parse_string_field(me, field) ==
    IF field = Col.star
    THEN Returned(<<Field(me.table, Col.star, <<>>)>>)
    ELSE FieldOfGroups(me, FIELD_PARSE_REGEX(FieldAndAlias(field)[1]),
                       FieldAndAlias(field)[2])

\* Engine._parse_single_field_item, lines 424-429: the dynamic field when
\* DynamicTableField.parse returned one, else the plain field
DynamicOrPlain(parsed, plain) ==
    IF parsed.exc # "none" \/ parsed.val # <<>> THEN parsed ELSE plain

\* Engine._parse_single_field_item: the objects the item contributes.  A
\* Function term stands for what get_function_object returns
_parse_single_field_item(me, item) ==
    CASE item.t = "criterion" -> Returned(<<[Obj EXCEPT !.kind = "Criterion"]>>)
      [] item.t = "dict" ->
            Collect(Map(LAMBDA entry :
                            IF entry.t # "list"
                            THEN Raised("ValidationError", <<>>)
                            ELSE ChildQuery(entry.s, Map(LAMBDA f : f.s, entry.items),
                                            me.doctype),
                        item.items))
      [] item.t = "str" ->
            IF has_function(item.s)
            THEN Returned(<<[Obj EXCEPT !.kind = "Function", !.name = item.s]>>)
            ELSE DynamicOrPlain(DynamicTableField_parse(item.s, me.doctype),
                                parse_string_field(me, item.s))
      [] OTHER -> Raised("ValidationError", <<>>)

\* Engine.parse_fields, lines 437-450: the items it sanitizes
FieldItems(fields) ==
    IF fields.t = "str"
    THEN Map(LAMBDA f : FieldArg("str", Strip(f), <<>>),
             SelectSeq(COMMA_PATTERN_split(fields.s), LAMBDA f : Strip(f) # <<>>))
    ELSE fields.items

\* Engine.parse_fields, lines 452-461: sanitized is the sanitized item list
ParseItems(me, sanitized) ==
    IF sanitized.exc # "none"
    THEN sanitized
    ELSE Collect(Map(LAMBDA item : _parse_single_field_item(me, item), sanitized.val))

\* Engine.parse_fields
parse_fields(me, fields) ==
    IF \/ fields.t = "none"
       \/ fields.t = "str" /\ fields.s = <<>>
       \/ fields.t = "list" /\ fields.items = <<>>
    THEN Returned(<<>>)
    ELSE IF fields.t \notin {"str", "list"}
    THEN Raised("ValidationError", <<>>)
    ELSE ParseItems(me,
            Collect(Map(LAMBDA item :
                            IF item.t = "str"
                            THEN [_sanitize_field(item.s) EXCEPT !.val =
                                    IF @ = <<>> THEN <<>> ELSE <<FieldArg("str", @[1], <<>>)>>]
                            ELSE Returned(<<item>>),
                        FieldItems(fields))))

---------------------------------------------------------------------------
(* The query AST (a pypika QueryBuilder) and the builder calls the engine  *)
(* makes on it.                                                            *)

\* the engine has no query (before the first call), or the caller got none
NoQuery ==
    [kind |-> "unset", table |-> <<>>, selects |-> <<>>, joins |-> <<>>,
     wheres |-> <<>>, orderbys |-> <<>>, groupbys |-> <<>>,
     limit |-> PyNone, offset |-> PyNone, distinct |-> FALSE,
     for_update |-> FALSE, skip_locked |-> FALSE, nowait |-> FALSE,
     child_queries |-> <<>>, immutable |-> FALSE]

\* qb.from_(table, immutable=False), qb.update(...), qb.into(...),
\* qb.from_(...).delete(): kind is "select", "update", "insert" or "delete"
NewQuery_mutant(kind, table) ==
    [NoQuery EXCEPT !.kind = kind, !.table = table, !.immutable = TRUE]

NewQuery(kind, table) == [NoQuery EXCEPT !.kind = kind, !.table = table]

\* a query that never reports a table as joined
is_joined_mutant(query, table) == FALSE

\* query.is_joined(table)
is_joined(query, table) == \E i \in 1..Len(query.joins) : query.joins[i].table = table

\* query.left_join(table).on(...), the join clause LEFT JOIN table ON
\*   kind "link":  table.name = main_table.column
\*   kind "child": table.parent = main_table.name AND table.parenttype = parenttype
left_join(query, kind, table, main_table, column, parenttype) ==
    [query EXCEPT !.joins = Append(@,
        [kind |-> kind, table |-> table, main_table |-> main_table,
         column |-> column, parenttype |-> parenttype])]

\* ChildTableField.apply_join and LinkTableField.apply_join
apply_join(field, query) ==
    IF is_joined(query, DocType(field.doctype))
    THEN query
    ELSE IF field.kind = "LinkTableField"
    THEN left_join(query, "link", DocType(field.doctype),
                   DocType(field.parent_doctype), field.link_fieldname, <<>>)
    ELSE left_join(query, "child", DocType(field.doctype),
                   DocType(field.parent_doctype), Col.name, field.parent_doctype)

\* ChildTableField.apply_select and LinkTableField.apply_select
apply_select(field, query) ==
    [apply_join(field, query) EXCEPT !.selects =
        Append(@, Field(DocType(field.doctype), field.fieldname, field.alias))]

---------------------------------------------------------------------------
(* Column-level permissions and Engine.apply_fields.                       *)

\* the entities frappe.get_meta knows; it raises DoesNotExistError for others
KnownDocTypes == {Task, User, Project, Subtask}

\* set(get_permitted_fields(doctype=doctype, ...)): permitted maps each entity
\* to the list the collaborator returns for it
get_permitted_fields(permitted, doctype) == Range(permitted[doctype])

\* Engine.apply_field_permissions, lines 579-582: fields are the permitted
\* fields of the child query
ChildQueryFiltered(field, fields) ==
    IF fields = <<>> THEN Returned(<<>>)
    ELSE Returned(<<[field EXCEPT !.fields = fields]>>)

\* Engine.apply_field_permissions, the body of the loop: what the field adds
\* to allowed_fields.  list(permitted_fields_set) has the order of the list
\* the collaborator returned
PermittedField(me, field, permitted) ==
    CASE field.kind = "ChildTableField" ->
            IF field.fieldname \in get_permitted_fields(permitted, field.doctype)
            THEN Returned(<<field>>)
            ELSE Returned(<<>>)
      [] field.kind = "LinkTableField" ->
            IF field.link_fieldname \in get_permitted_fields(permitted, me.doctype)
            THEN Returned(<<field>>)
            ELSE Returned(<<>>)
      [] field.kind = "ChildQuery" ->
            IF ~field.initialized
            THEN Raised("AttributeError", <<>>)
            ELSE ChildQueryFiltered(field, SelectSeq(field.fields,
                    LAMBDA f : f \in get_permitted_fields(permitted, field.doctype)))
      [] field.kind = "Field" ->
            IF field.name = Col.star
            THEN parse_fields(me, FieldArg("list", <<>>,
                    Map(LAMBDA f : FieldArg("str", f, <<>>), permitted[me.doctype])))
            ELSE IF field.name \in get_permitted_fields(permitted, me.doctype)
            THEN Returned(<<field>>)
            ELSE Returned(<<>>)
      [] OTHER -> Returned(<<>>)

\* Engine.apply_field_permissions: allowed_fields
apply_field_permissions_mutant(me, permitted) == Returned(me.fields)

apply_field_permissions(me, permitted) ==
    Collect(Map(LAMBDA field : PermittedField(me, field, permitted), me.fields))

\* Engine.apply_fields, lines 149-156: the loop over self.fields
RECURSIVE SelectFields(_, _)
SelectFields(query, fields) ==
    IF fields = <<>> THEN query
    ELSE SelectFields(
            IF Head(fields).kind \in {"LinkTableField", "ChildTableField"}
            THEN apply_select(Head(fields), query)
            ELSE IF Head(fields).kind = "ChildQuery"
            THEN [query EXCEPT !.child_queries = Append(@, Head(fields))]
            ELSE [query EXCEPT !.selects = Append(@, Head(fields))],
            Tail(fields))

\* Engine.apply_fields, lines 146-156: filtered is what apply_field_permissions
\* returned, or the parsed fields when permissions are not applied
FieldsFiltered(me, filtered) ==
    IF filtered.exc # "none"
    THEN Raised(filtered.exc, me)
    ELSE Returned(
            [me EXCEPT !.fields = IF filtered.val = <<>>
                                  THEN <<Field(me.table, Col.name, <<>>)>>
                                  ELSE filtered.val,
                       !.query = SelectFields(
                            [@ EXCEPT !.child_queries = <<>>],
                            IF filtered.val = <<>>
                            THEN <<Field(me.table, Col.name, <<>>)>>
                            ELSE filtered.val)])

\* Engine.apply_fields, lines 142-144: parsed is what parse_fields returned
FieldsParsed(me, parsed, permitted) ==
    IF parsed.exc # "none"
    THEN Raised(parsed.exc, me)
    ELSE FieldsFiltered([me EXCEPT !.fields = parsed.val],
                        IF me.apply_permissions
                        THEN apply_field_permissions([me EXCEPT !.fields = parsed.val],
                                                     permitted)
                        ELSE parsed)

\* Engine.apply_fields: the engine after the call
apply_fields(me, fields, permitted) ==
    FieldsParsed(me, parse_fields(me, fields), permitted)

---------------------------------------------------------------------------
(* Filters: apply_filters and what it calls.                               *)

\* a predicate of the WHERE clause
\*   kind "cmp":        operator(table.column, value)
\*   kind "isnull":     table.column IS NULL
\*   kind "criterion":  a Criterion the caller built
\*   kind "permission": the row-level predicate, see add_permission_conditions
Pred ==
    [kind |-> "", table |-> <<>>, column |-> <<>>, operator |-> <<>>,
     value |-> PyNone, conditions |-> <<>>, shared |-> <<>>]

\* query.where(pred)
where(query, pred) == [query EXCEPT !.wheres = Append(@, pred)]

\* frappe.database.operator_map.NESTED_SET_OPERATORS
NESTED_SET_OPERATORS ==
    {<<"d", "e", "s", "c", "e", "n", "d", "a", "n", "t", "s", " ", "o", "f">>, <<"n", "o", "t", " ", "d", "e", "s", "c", "e", "n", "d", "a", "n", "t", "s", " ", "o", "f">>, <<"a", "n", "c", "e", "s", "t", "o", "r", "s", " ", "o", "f">>,
     <<"n", "o", "t", " ", "a", "n", "c", "e", "s", "t", "o", "r", "s", " ", "o", "f">>, <<"d", "e", "s", "c", "e", "n", "d", "a", "n", "t", "s", " ", "o", "f", " ", "(", "i", "n", "c", "l", "u", "s", "i", "v", "e", ")">>}

\* the keys of frappe.database.operator_map.OPERATOR_MAP the model uses
OPERATOR_MAP == {<<"=">>, <<"!", "=">>, <<"i", "n">>, <<"n", "o", "t", " ", "i", "n">>, <<"l", "i", "k", "e">>, <<">">>, <<"<">>}

\* frappe.database.utils.convert_to_value: a bool becomes an int
convert_to_value(value) == IF value.t = "bool" THEN [value EXCEPT !.t = "int"] ELSE value

\* the rows (name, lft, rgt) of the table of a tree entity
TreeRows(doctype) ==
    IF doctype = Task
    THEN <<[name |-> <<"A">>, lft |-> 1, rgt |-> 6],
           [name |-> <<"B">>, lft |-> 2, rgt |-> 3],
           [name |-> <<"C">>, lft |-> 4, rgt |-> 5]>>
    ELSE <<>>

\* .orderby(table.lft, order=...).run(pluck=True): the names of the rows in
\* the order of lft
RECURSIVE OrderByLft(_, _)
OrderByLft(rows, ascending) ==
    IF rows = <<>> THEN <<>>
    ELSE Map(LAMBDA r : Py("str", r.name, 0, <<>>),
             SelectSeq(rows, LAMBDA r :
                IF ascending THEN \A o \in Range(rows) : o.lft >= r.lft
                             ELSE \A o \in Range(rows) : o.lft <= r.lft))
         \o OrderByLft(SelectSeq(rows, LAMBDA r :
                            IF ascending THEN \E o \in Range(rows) : o.lft < r.lft
                                         ELSE \E o \in Range(rows) : o.lft > r.lft),
                        ascending)

\* get_nested_set_hierarchy_result, lines 924-945: found are the rows of the
\* reference node; a comparison with the NULL bounds of a missing node
\* selects no row
NestedSetResult(rows, found, name, hierarchy) ==
    IF hierarchy \in {<<"d", "e", "s", "c", "e", "n", "d", "a", "n", "t", "s", " ", "o", "f">>, <<"n", "o", "t", " ", "d", "e", "s", "c", "e", "n", "d", "a", "n", "t", "s", " ", "o", "f">>,
                      <<"d", "e", "s", "c", "e", "n", "d", "a", "n", "t", "s", " ", "o", "f", " ", "(", "i", "n", "c", "l", "u", "s", "i", "v", "e", ")">>}
    THEN OrderByLft(SelectSeq(rows, LAMBDA r :
                        /\ found # <<>>
                        /\ r.lft > found[1].lft
                        /\ r.rgt < found[1].rgt), TRUE)
         \o (IF hierarchy = <<"d", "e", "s", "c", "e", "n", "d", "a", "n", "t", "s", " ", "o", "f", " ", "(", "i", "n", "c", "l", "u", "s", "i", "v", "e", ")">> THEN <<name>> ELSE <<>>)
    ELSE OrderByLft(SelectSeq(rows, LAMBDA r :
                        /\ found # <<>>
                        /\ r.lft < found[1].lft
                        /\ r.rgt > found[1].rgt), FALSE)

\* get_nested_set_hierarchy_result; name is a value
get_nested_set_hierarchy_result(doctype, name, hierarchy) ==
    NestedSetResult(TreeRows(doctype),
                    SelectSeq(TreeRows(doctype), LAMBDA r : name.t = "str" /\ r.name = name.s),
                    name, hierarchy)

\* the field of a filter: a string, or a pypika Field of the engine's table
FilterField(is_str, s) == [is_str |-> is_str, s |-> s]

\* Engine._validate_and_prepare_filter_field, lines 219-248, for a string:
\* dynamic_field is what DynamicTableField.parse returned.  The value is the
\* engine (its query may have a new join) and the field to compare
FieldPrepared(me, dynamic_field, field, doctype) ==
    IF ~SPECIAL_CHAR_PATTERN(field)
    THEN Returned([me |-> me,
                   field |-> Field(DocType(IF doctype # <<>> THEN doctype ELSE me.doctype),
                                   field, <<>>)])
    ELSE IF dynamic_field.exc # "none"
    THEN Raised(dynamic_field.exc, [me |-> me, field |-> Obj])
    ELSE IF dynamic_field.val # <<>>
    THEN Returned([me |-> [me EXCEPT !.query = apply_join(dynamic_field.val[1], @)],
                   field |-> Field(dynamic_field.val[1].table,
                                   dynamic_field.val[1].name, <<>>)])
    ELSE IF ~ALLOWED_SQL_FIELD_PATTERN(field)
    THEN Raised("PermissionError", [me |-> me, field |-> Obj])
    ELSE Returned([me |-> me,
                   field |-> Field(DocType(IF doctype # <<>> THEN doctype ELSE me.doctype),
                                   field, <<>>)])

\* Engine._validate_and_prepare_filter_field; doctype is <<>> for None
_validate_and_prepare_filter_field(me, field, doctype) ==
    IF ~field.is_str
    THEN Returned([me |-> me, field |-> Field(me.table, field.s, <<>>)])
    ELSE FieldPrepared(me, DynamicTableField_parse(field.s, me.doctype), field.s, doctype)

\* Engine._apply_filter, lines 261-268: the implicit join of a child table
ImplicitJoin(me, doctype) ==
    IF doctype = <<>> \/ doctype = me.doctype
    THEN Returned(me)
    ELSE IF doctype \notin KnownDocTypes
    THEN Raised("DoesNotExistError", me)
    ELSE IF istable(doctype) /\ ~is_joined(me.query, DocType(doctype))
    THEN Returned([me EXCEPT !.query = left_join(@, "child", DocType(doctype),
                                                 me.table, Col.name, me.doctype)])
    ELSE Returned(me)

\* a predicate that compares with None unless the operator is "="
FilterPredicate_mutant(me, _field, _df, _value, operator) ==
    IF _value.t = "none" /\ operator = Col.eq
    THEN Returned([Pred EXCEPT !.kind = "isnull", !.table = _field.table,
                               !.column = _field.name])
    ELSE Returned([Pred EXCEPT !.kind = "cmp", !.table = _field.table,
                               !.column = _field.name, !.operator = operator,
                               !.value = _value])

\* Engine._apply_filter, lines 276-298: the predicate it attaches.  _df is the
\* metadata field of the original field name
FilterPredicate(me, _field, _df, _value, operator) ==
    IF operator \in NESTED_SET_OPERATORS
    THEN Returned(
            [Pred EXCEPT !.kind = "cmp", !.table = _field.table,
                !.column = _field.name,
                !.operator = IF operator \in {<<"n", "o", "t", " ", "a", "n", "c", "e", "s", "t", "o", "r", "s", " ", "o", "f">>, <<"n", "o", "t", " ", "d", "e", "s", "c", "e", "n", "d", "a", "n", "t", "s", " ", "o", "f">>}
                             THEN Col.not_in ELSE Col.in,
                !.value = [Py("list", <<>>, 0,
                              get_nested_set_hierarchy_result(
                                IF _df # NoField THEN _df.options ELSE me.doctype,
                                _value, operator))
                           EXCEPT !.l = IF @ = <<>> THEN <<Py("str", <<>>, 0, <<>>)>> ELSE @]])
    ELSE IF Lower(operator) \notin OPERATOR_MAP
    THEN Raised("KeyError", Pred)
    ELSE IF _value.t = "none"
    THEN Returned([Pred EXCEPT !.kind = "isnull", !.table = _field.table,
                               !.column = _field.name])
    ELSE Returned([Pred EXCEPT !.kind = "cmp", !.table = _field.table,
                               !.column = _field.name, !.operator = Lower(operator),
                               !.value = _value])

\* Engine._apply_filter, lines 270-298: joined is the engine after the
\* implicit join, pred the predicate
FilterApplied(joined, pred) ==
    IF joined.exc # "none" THEN joined
    ELSE IF pred.exc # "none" THEN Raised(pred.exc, joined.val)
    ELSE Returned([joined.val EXCEPT !.query = where(@, pred.val)])

\* Engine._apply_filter, lines 258-298: prepared is what
\* _validate_and_prepare_filter_field returned
FilterPrepared(me, prepared, field, value, operator, doctype) ==
    IF prepared.exc # "none"
    THEN Raised(prepared.exc, me)
    ELSE FilterApplied(
            ImplicitJoin(prepared.val.me, doctype),
            FilterPredicate(me, prepared.val.field, get_field(me.doctype, field.s),
                IF convert_to_value(value).t = "list" /\ convert_to_value(value).l = <<>>
                THEN Py("list", <<>>, 0, <<Py("str", <<>>, 0, <<>>)>>)
                ELSE convert_to_value(value),
                operator))

\* Engine._apply_filter; doctype is <<>> for None
_apply_filter(me, field, value, operator, doctype) ==
    FilterPrepared(me, _validate_and_prepare_filter_field(me, field, doctype),
                   field, value, operator, doctype)


\* the filters argument, an item of a list of filters, or an entry of a
\* mapping of filters:
\*   the filters argument: t is "none", "value" (a FilterValue), "criterion",
\*     "dict", "list" or "other"; items are the entries of a dict or the items
\*     of a list
\*   an item of a list: as the filters argument, but a list is a filter of
\*     len elements: [field, value], [field, operator, value] or
\*     [doctype, field, operator, value]
\*   an entry of a dict: field is the key, len is 3 when the value is a list
\*     or tuple (operator, value) and 2 otherwise
FilterArg ==
    [t |-> "none", items |-> <<>>, len |-> 0, doctype |-> <<>>,
     field |-> FilterField(TRUE, <<>>), operator |-> Col.eq, value |-> PyNone]

\* what apply_filters does, in order: a call of _apply_filter (do is
\* "filter"), a query.where of a Criterion ("where") or a raise ("raise")
FilterCall(do, filter) == [do |-> do, filter |-> filter]

\* Engine.apply_list_filters: what it does
apply_list_filters(filter) ==
    IF filter.len = 2
    THEN <<FilterCall("filter", [filter EXCEPT !.operator = Col.eq, !.doctype = <<>>])>>
    ELSE IF filter.len = 3
    THEN <<FilterCall("filter", [filter EXCEPT !.doctype = <<>>])>>
    ELSE IF filter.len = 4
    THEN <<FilterCall("filter", filter)>>
    ELSE <<FilterCall("raise", filter)>>

\* Engine.apply_dict_filters: what it does
apply_dict_filters(entries) ==
    Map(LAMBDA entry :
            FilterCall("filter",
                [entry EXCEPT !.operator = IF entry.len = 3 THEN @ ELSE Col.eq,
                              !.doctype = <<>>]),
        entries)

\* sum(seqs, [])
RECURSIVE Concat(_)
Concat(seqs) == IF seqs = <<>> THEN <<>> ELSE Head(seqs) \o Concat(Tail(seqs))

\* Engine.apply_filters: what it does
RECURSIVE FilterCalls(_)
FilterCalls(filters) ==
    CASE filters.t = "none" -> <<>>
      [] filters.t = "value" ->
            apply_dict_filters(<<[FilterArg EXCEPT
                !.field = FilterField(TRUE, Col.name), !.len = 2,
                !.value = convert_to_value(filters.value)]>>)
      [] filters.t = "criterion" -> <<FilterCall("where", filters)>>
      [] filters.t = "dict" -> apply_dict_filters(filters.items)
      [] filters.t = "list" ->
            IF /\ filters.items # <<>>
               /\ \A d \in Range(filters.items) : d.t = "value"
            THEN apply_dict_filters(<<[FilterArg EXCEPT
                    !.field = FilterField(TRUE, Col.name), !.len = 3,
                    !.operator = Col.in,
                    !.value = Py("list", <<>>, 0,
                        Map(LAMBDA f : convert_to_value(f.value), filters.items))]>>)
            ELSE Concat(Map(LAMBDA filter :
                                IF filter.t \in {"value", "criterion", "dict"}
                                THEN FilterCalls(filter)
                                ELSE IF filter.t = "list"
                                THEN apply_list_filters(filter)
                                ELSE <<FilterCall("raise", filter)>>,
                            filters.items))
      [] OTHER -> <<FilterCall("raise", filters)>>

\* one thing apply_filters does, on the engine me
RunFilterCall(me, call) ==
    CASE call.do = "filter" ->
            _apply_filter(me, call.filter.field, call.filter.value,
                          call.filter.operator, call.filter.doctype)
      [] call.do = "where" ->
            Returned([me EXCEPT !.query = where(@, [Pred EXCEPT !.kind = "criterion"])])
      [] OTHER -> Raised("ValueError", me)

\* the filter calls in order, up to the first that raises
RECURSIVE RunFilterCalls(_, _)
RunFilterCalls(done, calls) ==
    IF done.exc # "none" \/ calls = <<>> THEN done
    ELSE RunFilterCalls(RunFilterCall(done.val, Head(calls)), Tail(calls))

\* Engine.apply_filters: the engine after the call
apply_filters(me, filters) == RunFilterCalls(Returned(me), FilterCalls(filters))

---------------------------------------------------------------------------
(* ORDER BY, GROUP BY, LIMIT and OFFSET.                                   *)

\* frappe.database.utils.DefaultOrderBy
DefaultOrderBy == <<"K", "E", "E", "P", "_", "D", "E", "F", "A", "U", "L", "T", "_", "O", "R", "D", "E", "R", "I", "N", "G">>

\* the non-empty stripped declarations of order_by.split(",")
Declarations(order_by) ==
    SelectSeq(Map(LAMBDA declaration : Strip(declaration), Split(order_by, <<",">>)),
              LAMBDA declaration : declaration # <<>>)

\* Engine._validate_order_by, the body of the loop: parts is _order_by.split()
ValidateDeclaration(parts) ==
    IF ~IsDigit(parts[1]) /\ ~ALLOWED_SQL_FIELD_PATTERN(parts[1])
    THEN Raised("PermissionError", <<>>)
    ELSE IF /\ Len(parts) > 1
            /\ Lower(parts[2]) # <<>>
            /\ Lower(parts[2]) \notin {Col.asc, Col.desc}
    THEN Raised("ValueError", <<>>)
    ELSE Returned(<<>>)

\* Engine._validate_order_by
_validate_order_by(order_by) ==
    IF order_by.t # "str"
    THEN Raised("TypeError", <<>>)
    ELSE Collect(Map(LAMBDA declaration : ValidateDeclaration(SplitWhitespace(declaration)),
                     Declarations(order_by.s)))

\* Engine.apply_order_by, the body of the loop: the ordering it attaches,
\* parts is _order_by.split(" ")
AppliedOrdering(parts) ==
    [field |-> parts[1],
     order |-> IF Len(parts) > 1 /\ Lower(parts[2]) = Col.asc THEN "asc" ELSE "desc"]

\* Engine.apply_order_by, lines 486-491: validated is what _validate_order_by
\* returned
OrderValidated(me, validated, order_by) ==
    IF validated.exc # "none"
    THEN Raised(validated.exc, me)
    ELSE Returned([me EXCEPT !.query.orderbys =
            @ \o Map(LAMBDA declaration : AppliedOrdering(Split(declaration, <<" ">>)),
                     Declarations(order_by.s))])

\* Engine.apply_order_by
apply_order_by(me, order_by) ==
    IF ~Truthy(order_by) \/ order_by = Py("str", DefaultOrderBy, 0, <<>>)
    THEN Returned(me)
    ELSE OrderValidated(me, _validate_order_by(order_by), order_by)

\* Engine._validate_group_by
_validate_group_by(group_by) ==
    IF group_by.t # "str"
    THEN Raised("TypeError", <<>>)
    ELSE Collect(Map(LAMBDA part :
                        IF \/ Strip(part) = <<>>
                           \/ IsDigit(Strip(part))
                           \/ ALLOWED_SQL_FIELD_PATTERN(Strip(part))
                        THEN Returned(<<>>)
                        ELSE Raised("PermissionError", <<>>),
                     COMMA_PATTERN_split(group_by.s)))

\* get_query, lines 127-129: validated is what _validate_group_by returned
apply_group_by(me, group_by, validated) ==
    IF ~Truthy(group_by)
    THEN Returned(me)
    ELSE IF validated.exc # "none"
    THEN Raised(validated.exc, me)
    ELSE Returned([me EXCEPT !.query.groupbys = Append(@, group_by.s)])

\* get_query, lines 111-114 with clause "limit" and lines 116-119 with
\* clause "offset"
apply_limit(me, clause, limit) ==
    IF ~Truthy(limit)
    THEN Returned(me)
    ELSE IF limit.t \notin {"int", "bool"} \/ limit.n < 0
    THEN Raised("TypeError", me)
    ELSE Returned([me EXCEPT !.query[clause] = limit])

---------------------------------------------------------------------------
(* Row-level permissions.                                                  *)

\* a row-level constraint
\*   kind "owner":            table.owner = user
\*   kind "user_permission":  table.column IN docs, or with lenient
\*                            table.column IS NULL OR table.column IN docs
\*   kind "raw":              a RawCriterion of a hook or a server script
Cond ==
    [kind |-> "", column |-> <<>>, docs |-> <<>>, lenient |-> FALSE, user |-> <<>>]

\* Engine.requires_owner_constraint
requires_owner_constraint_mutant(role_permissions) ==
    /\ role_permissions.has_if_owner_enabled
    /\ role_permissions.if_owner # {}
    /\ ~role_permissions.select
    /\ ~role_permissions.read

requires_owner_constraint(role_permissions) ==
    /\ role_permissions.has_if_owner_enabled
    /\ role_permissions.if_owner # {}
    /\ \A perm_type \in {"select", "read"} :
        ~(role_permissions[perm_type] /\ perm_type \notin role_permissions.if_owner)

\* Engine.get_doctype_link_fields
get_doctype_link_fields(me) ==
    <<[NoField EXCEPT !.fieldname = Col.name, !.options = me.doctype]>>
    \o get_link_fields(me.doctype)

\* the attributes get_query and the methods it calls assign on the engine
hasattr(me, name) == name \in DOMAIN me

\* Engine.get_user_permission_conditions, lines 625-636, the body of the
\* loop: the doc the permission adds to docs.  Reading an attribute the
\* engine does not have raises
PermissionDoc(me, df, permission) ==
    IF permission.applicable_for = <<>>
    THEN Returned(<<permission.doc>>)
    ELSE IF df.fieldname = Col.name /\ ~hasattr(me, "reference_doctype")
    THEN Raised("AttributeError", <<>>)
    ELSE IF df.fieldname = Col.name /\ me.reference_doctype # <<>>
    THEN IF permission.applicable_for = me.reference_doctype
         THEN Returned(<<permission.doc>>)
         ELSE Returned(<<>>)
    ELSE IF permission.applicable_for = me.doctype
    THEN Returned(<<permission.doc>>)
    ELSE Returned(<<>>)

\* Engine.get_user_permission_conditions, lines 638-646: the condition of one
\* link field, docs is what the loop over its permissions left
LinkFieldCondition(df, docs, strict) ==
    IF docs.exc # "none" \/ docs.val = <<>>
    THEN docs
    ELSE Returned(<<[Cond EXCEPT !.kind = "user_permission", !.column = df.fieldname,
                                 !.docs = docs.val, !.lenient = ~strict]>>)

\* user_permissions.get(doctype, {}): user_permissions is the list of the
\* (doctype, entries) items of the mapping
UserPermissionsFor(user_permissions, doctype) ==
    Concat(Map(LAMBDA item : IF item.doctype = doctype THEN item.entries ELSE <<>>,
               user_permissions))

\* Engine.get_user_permission_conditions: the conditions
get_user_permission_conditions(me, role_permissions, user_permissions, strict) ==
    IF ~(role_permissions.read \/ role_permissions.select) \/ user_permissions = <<>>
    THEN Returned(<<>>)
    ELSE Collect(Map(LAMBDA df :
                        IF df.ignore_user_permissions
                        THEN Returned(<<>>)
                        ELSE LinkFieldCondition(df,
                                Collect(Map(LAMBDA permission : PermissionDoc(me, df, permission),
                                            UserPermissionsFor(user_permissions, df.options))),
                                strict),
                     get_doctype_link_fields(me)))

\* Engine.add_permission_conditions, lines 672-689: the predicate it attaches
\*   Criterion.all(conditions), OR-ed with name IN shared_docs when shared_docs
\*   is not empty
PermissionWhere(me, conditions, shared_docs) ==
    IF conditions.exc # "none"
    THEN Raised(conditions.exc, me)
    ELSE IF shared_docs # <<>> \/ conditions.val # <<>>
    THEN Returned([me EXCEPT !.query = where(@,
            [Pred EXCEPT !.kind = "permission", !.conditions = conditions.val,
                         !.shared = shared_docs])])
    ELSE Returned(me)

\* Engine.add_permission_conditions, line 670 and lines 676-678
fetch_shared_docs(site) ==
    \/ requires_owner_constraint(site.role_permissions)
    \/ /\ site.role_permissions.read \/ site.role_permissions.select
       /\ site.user_permissions # <<>>

\* Engine.add_permission_conditions.  site holds what the collaborators
\* answer: raw is what get_permission_query_conditions returns
add_permission_conditions(me, site) ==
    PermissionWhere(me,
        Then(IF requires_owner_constraint(site.role_permissions)
             THEN Returned(<<[Cond EXCEPT !.kind = "owner", !.column = Col.owner,
                                          !.user = me.user]>>)
             ELSE get_user_permission_conditions(me, site.role_permissions,
                                                 site.user_permissions, site.strict),
             Returned(site.raw)),
        IF fetch_shared_docs(site) THEN site.shared ELSE <<>>)

---------------------------------------------------------------------------
(* Engine.get_query, statement group by statement group.                   *)

\* the statement groups of get_query in the order the code runs them
\*   get_query                  lines 76-93, with validate_doctype
\*   check_read_permission      lines 95-96
\*   build                      lines 98-106, with apply_fields
\*   apply_filters              line 108
\*   apply_order_by             line 109
\*   limit                      lines 111-114
\*   offset                     lines 116-119
\*   distinct                   lines 121-122
\*   for_update                 lines 124-125
\*   group_by                   lines 127-129
\*   add_permission_conditions  lines 131-132
\*   freeze                     lines 134-135
Steps_check_late ==
    <<"get_query", "build", "check_read_permission", "apply_filters",
      "apply_order_by", "limit", "offset", "distinct", "for_update", "group_by",
      "add_permission_conditions", "freeze", "done">>

Steps_permission_early ==
    <<"get_query", "check_read_permission", "build", "apply_filters",
      "add_permission_conditions", "apply_order_by", "limit", "offset",
      "distinct", "for_update", "group_by", "freeze", "done">>

Steps ==
    <<"get_query", "check_read_permission", "build", "apply_filters",
      "apply_order_by", "limit", "offset", "distinct", "for_update", "group_by",
      "add_permission_conditions", "freeze", "done">>

\* the statement group that follows step
After(step) == Steps[1 + CHOOSE i \in 1..Len(Steps) : Steps[i] = step]

\* frappe.session.user
session_user == <<"a", "l", "i", "c", "e">>

\* frappe.database.utils.get_doctype_name of the SQL of a Table
get_doctype_name(table) ==
    IF StartsAt(table, 1, Col.tab) THEN Sub(table, 4, Len(table)) ELSE table

\* Engine.validate_doctype: TRUE when the name is accepted
validate_doctype(doctype) == TABLE_NAME_PATTERN(doctype)

\* the engine before its first get_query
NewEngine ==
    [doctype |-> <<>>, table |-> <<>>, user |-> <<>>, parent_doctype |-> <<>>,
     apply_permissions |-> FALSE, fields |-> <<>>, query |-> NoQuery]

\* the arguments of a call with the defaults of get_query, on the entity Task.
\* table is the name of the entity, or with is_table the name of a pypika
\* Table; mode is the one of select, update, insert (into) and delete the
\* flags update, into and delete choose
DefaultArgs ==
    [table |-> Task, is_table |-> FALSE, ignore_permissions |-> TRUE,
     user |-> <<>>, mode |-> "select", fields |-> FieldArg("none", <<>>, <<>>),
     filters |-> FilterArg, order_by |-> PyNone, group_by |-> PyNone,
     limit |-> PyNone, offset |-> PyNone, distinct |-> FALSE,
     for_update |-> FALSE, skip_locked |-> FALSE, wait |-> TRUE]

\* what the collaborators answer on a site where the user may read all of
\* every entity:
\*   has_select, has_read   frappe.has_permission(doctype, ptype, ...)
\*   permitted              get_permitted_fields(doctype, ...)
\*   role_permissions       frappe.permissions.get_role_permissions
\*   user_permissions       frappe.permissions.get_user_permissions
\*   strict                 the setting apply_strict_user_permissions
\*   raw                    Engine.get_permission_query_conditions
\*   shared                 frappe.share.get_shared
DefaultSite ==
    [has_select |-> FALSE, has_read |-> TRUE,
     permitted |-> [d \in KnownDocTypes |->
                        <<Col.name, Col.owner>>
                        \o Map(LAMBDA df : df.fieldname, MetaFields(d))],
     role_permissions |-> [read |-> TRUE, select |-> FALSE,
                           has_if_owner_enabled |-> FALSE, if_owner |-> {}],
     user_permissions |-> <<>>, strict |-> FALSE, raw |-> <<>>, shared |-> <<>>]

\* a statement group ended: the engine it leaves, the exception it raised
Ended(step, outcome, events) ==
    /\ self' = outcome.val
    /\ exception' = outcome.exc
    /\ pc' = IF outcome.exc = "none" THEN After(step) ELSE "raised"
    /\ log' = log \o events
    /\ UNCHANGED <<args, env, result, other>>

\* lines 76-93: the attributes are set and the table is resolved
GetQuery ==
    /\ pc = "get_query"
    /\ Ended("get_query",
             [exc |-> IF args.is_table \/ validate_doctype(args.table)
                      THEN "none" ELSE "ValidationError",
              val |-> [self EXCEPT
                        !.user = IF args.user # <<>> THEN args.user ELSE session_user,
                        !.parent_doctype = <<>>,
                        !.apply_permissions = ~args.ignore_permissions,
                        !.doctype = IF args.is_table THEN get_doctype_name(args.table)
                                    ELSE args.table,
                        !.table = IF args.is_table THEN args.table
                                  ELSE IF validate_doctype(args.table)
                                  THEN DocType(args.table) ELSE @]],
             IF args.is_table THEN <<>> ELSE <<"validate_doctype">>)

\* lines 95-96 and Engine.check_read_permission: has_permission("read") is
\* asked only when has_permission("select") is refused
CheckReadPermission ==
    /\ pc = "check_read_permission"
    /\ Ended("check_read_permission",
             IF self.apply_permissions /\ ~env.has_select /\ ~env.has_read
             THEN Raised("PermissionError", self)
             ELSE Returned(self),
             IF ~self.apply_permissions THEN <<>>
             ELSE IF env.has_select THEN <<"has_permission(select)">>
             ELSE <<"has_permission(select)", "has_permission(read)">>)

\* lines 98-106: the query is created and, in select mode, apply_fields runs
Build ==
    /\ pc = "build"
    /\ Ended("build",
             IF args.mode = "select"
             THEN apply_fields([self EXCEPT !.query = NewQuery(args.mode, self.table)],
                               args.fields, env.permitted)
             ELSE Returned([self EXCEPT !.query = NewQuery(args.mode, self.table)]),
             IF args.mode = "select" THEN <<"new_query", "apply_fields">>
             ELSE <<"new_query">>)

\* line 108
ApplyFilters ==
    /\ pc = "apply_filters"
    /\ Ended("apply_filters", apply_filters(self, args.filters), <<"apply_filters">>)

\* line 109
ApplyOrderBy ==
    /\ pc = "apply_order_by"
    /\ Ended("apply_order_by", apply_order_by(self, args.order_by), <<"apply_order_by">>)

\* lines 111-114
ApplyLimit ==
    /\ pc = "limit"
    /\ Ended("limit", apply_limit(self, "limit", args.limit),
             IF Truthy(args.limit) THEN <<"limit">> ELSE <<>>)

\* lines 116-119
ApplyOffset ==
    /\ pc = "offset"
    /\ Ended("offset", apply_limit(self, "offset", args.offset),
             IF Truthy(args.offset) THEN <<"offset">> ELSE <<>>)

\* lines 121-122
ApplyDistinct ==
    /\ pc = "distinct"
    /\ Ended("distinct",
             Returned([self EXCEPT !.query.distinct = @ \/ args.distinct]),
             IF args.distinct THEN <<"distinct">> ELSE <<>>)

\* lines 124-125: query.for_update(skip_locked=skip_locked, nowait=not wait)
ApplyForUpdate ==
    /\ pc = "for_update"
    /\ Ended("for_update",
             Returned(IF args.for_update
                      THEN [self EXCEPT !.query.for_update = TRUE,
                                        !.query.skip_locked = args.skip_locked,
                                        !.query.nowait = ~args.wait]
                      ELSE self),
             IF args.for_update THEN <<"for_update">> ELSE <<>>)

\* lines 127-129
ApplyGroupBy ==
    /\ pc = "group_by"
    /\ Ended("group_by",
             apply_group_by(self, args.group_by, _validate_group_by(args.group_by)),
             IF Truthy(args.group_by) THEN <<"_validate_group_by">> ELSE <<>>)

\* the collaborators add_permission_conditions asked, given what it returned
PermissionCalls(site, outcome) ==
    <<"add_permission_conditions", "get_role_permissions">>
    \o (IF /\ ~requires_owner_constraint(site.role_permissions)
           /\ site.role_permissions.read \/ site.role_permissions.select
        THEN <<"get_user_permissions">> ELSE <<>>)
    \o (IF outcome.exc = "none" THEN <<"get_permission_query_conditions">> ELSE <<>>)
    \o (IF outcome.exc = "none" /\ fetch_shared_docs(site)
        THEN <<"get_shared">> ELSE <<>>)

\* lines 131-132: outcome is what add_permission_conditions returned
PermissionsAdded(outcome) ==
    Ended("add_permission_conditions", outcome, PermissionCalls(env, outcome))

AddPermissionConditions ==
    /\ pc = "add_permission_conditions"
    /\ IF self.apply_permissions
       THEN PermissionsAdded(add_permission_conditions(self, env))
       ELSE Ended("add_permission_conditions", Returned(self), <<>>)

\* line 134
Freeze_mutant(query) == query

Freeze(query) == [query EXCEPT !.immutable = TRUE]

\* lines 134-135: the query is frozen and returned
Return ==
    /\ pc = "freeze"
    /\ self' = [self EXCEPT !.query = Freeze(@)]
    /\ result' = self'.query
    /\ pc' = After("freeze")
    /\ log' = Append(log, "freeze")
    /\ UNCHANGED <<args, env, exception, other>>

---------------------------------------------------------------------------
(* The calls the model makes and the sites it makes them on.               *)

\* the longest list frappe.share.get_shared returns
MaxShared == 1

\* the largest number given as limit or offset
MaxLimit == 1

Str(s) == Py("str", s, 0, <<>>)

\* the names of documents
DocNames == <<<<"T", "1">>, <<"T", "2">>, <<"T", "3">>>>

\* a list filter of len elements
Filter(len, doctype, field, operator, value) ==
    [FilterArg EXCEPT !.t = "list", !.len = len, !.doctype = doctype,
                      !.field = FilterField(TRUE, field), !.operator = operator,
                      !.value = value]

\* field specifications
FieldSpecs ==
    {FieldArg("none", <<>>, <<>>), FieldArg("other", <<>>, <<>>),
     FieldArg("list", <<>>, <<>>)}
    \cup {FieldArg("str", f, <<>>) : f \in
            {<<>>, <<"n", "a", "m", "e", ",", " ", "s", "t", "a", "t", "u", "s">>, <<"*">>, <<"n", "a", "m", "e", ";", " ", "D", "R", "O", "P", " ", "T", "A", "B", "L", "E", " ", "x">>,
             <<"a", "s", "s", "i", "g", "n", "e", "d", "_", "t", "o", ".", "e", "m", "a", "i", "l">>, <<"a", "s", "s", "i", "g", "n", "e", "d", "_", "t", "o", ".", "e", "m", "a", "i", "l", " ", "a", "s", " ", "m", "a", "i", "l", ",", " ", "p", "r", "o", "j", "e", "c", "t", ".", "n", "a", "m", "e">>,
             <<"i", "t", "e", "m", "s", ".", "q", "t", "y">>, <<BT, "t", "a", "b", "S", "u", "b", "t", "a", "s", "k", BT, ".", BT, "q", "t", "y", BT, ",", " ", "n", "a", "m", "e">>, <<"c", "o", "u", "n", "t", "(", "n", "a", "m", "e", ")", " ", "a", "s", " ", "c">>,
             <<"t", "a", "b", "T", "a", "s", "k", ".", "n", "a", "m", "e">>, <<"s", "t", "a", "t", "u", "s", ".", "x">>, <<"a", "s", "s", "i", "g", "n", "e", "d", "_", "t", "o", ".", "e", "m", "a", "i", "l", ",", " ", "m", "a", "n", "a", "g", "e", "r", ".", "n", "a", "m", "e">>, <<"n", "a", "m", "e", " ", "a", "s", " ", "n", ",", " ", "1">>, <<"n", "a", "m", "e", ",", ",", " ", "o", "w", "n", "e", "r">>,
             <<"n", "a", "m", "e", " ", "-", "-", " ", "x">>, <<"*", ",", " ", "s", "t", "a", "t", "u", "s">>}}
    \cup {FieldArg("list", <<>>, items) : items \in
            {<<FieldArg("str", <<"n", "a", "m", "e">>, <<>>),
               FieldArg("dict", <<>>,
                    <<FieldArg("list", Col.items,
                        <<FieldArg("str", Col.qty, <<>>), FieldArg("str", Col.name, <<>>)>>)>>)>>,
             <<FieldArg("dict", <<>>,
                    <<FieldArg("list", Col.status, <<FieldArg("str", Col.qty, <<>>)>>)>>)>>,
             <<FieldArg("dict", <<>>,
                    <<FieldArg("list", <<"n", "o", "f", "i", "e", "l", "d">>, <<FieldArg("str", Col.qty, <<>>)>>)>>)>>,
             <<FieldArg("dict", <<>>, <<FieldArg("str", Col.items, <<>>)>>)>>,
             <<FieldArg("criterion", <<>>, <<>>), FieldArg("str", <<"s", "t", "a", "t", "u", "s">>, <<>>)>>,
             <<FieldArg("other", <<>>, <<>>)>>,
             <<FieldArg("str", <<"n", "a", "m", "e">>, <<>>), FieldArg("str", <<"x", ";", " ", "y">>, <<>>)>>}}

\* what get_permitted_fields answers: all columns, the link and collection
\* columns of Task but no column of the linked entities, and the plain
\* columns only
PermittedMaps ==
    {DefaultSite.permitted,
     [d \in KnownDocTypes |->
        IF d = Task THEN <<Col.name, Col.assigned_to, Col.project, Col.items>> ELSE <<>>],
     [d \in KnownDocTypes |->
        IF d = Task THEN <<Col.status, Col.name>>
        ELSE IF d = User THEN <<Col.email>>
        ELSE IF d = Subtask THEN <<Col.qty>>
        ELSE <<>>]}

\* filters
FilterSpecs ==
    {FilterArg,
     [FilterArg EXCEPT !.t = "other"],
     [FilterArg EXCEPT !.t = "criterion"],
     [FilterArg EXCEPT !.t = "value", !.value = Str(DocNames[1])],
     [FilterArg EXCEPT !.t = "value", !.value = Py("bool", <<>>, 1, <<>>)],
     [FilterArg EXCEPT !.t = "list"],
     [FilterArg EXCEPT !.t = "list", !.items =
        <<[FilterArg EXCEPT !.t = "value", !.value = Str(DocNames[1])],
          [FilterArg EXCEPT !.t = "value", !.value = Str(DocNames[2])]>>],
     [FilterArg EXCEPT !.t = "list", !.items =
        <<[FilterArg EXCEPT !.t = "value", !.value = Str(DocNames[1])],
          [FilterArg EXCEPT !.t = "criterion"],
          [FilterArg EXCEPT !.t = "other"],
          [FilterArg EXCEPT !.t = "value", !.value = Str(DocNames[2])]>>]}
    \cup {[FilterArg EXCEPT !.t = "dict", !.items = <<[e EXCEPT !.t = "entry"]>>] :
            e \in {Filter(2, <<>>, Col.status, <<>>, Str(<<"O", "p", "e", "n">>)),
                   Filter(2, <<>>, Col.status, <<>>, PyNone),
                   Filter(3, <<>>, Col.status, <<"!", "=">>, PyNone),
                   Filter(3, <<>>, Col.status, <<"I", "N">>, Py("list", <<>>, 0, <<>>)),
                   Filter(2, <<>>, <<"n", "a", "m", "e", ";", " ", "x">>, <<>>, Str(<<"a">>)),
                   Filter(2, <<>>, <<"i", "t", "e", "m", "s", ".", "q", "t", "y">>, <<>>, Py("int", <<>>, 1, <<>>))}}
    \cup {[FilterArg EXCEPT !.t = "list", !.items = <<Filter(3, <<>>, f, Col.eq, Str(<<"a">>))>>] :
            f \in {Col.name, <<BT, "n", "a", "m", "e", BT>>, <<"a", "s", "s", "i", "g", "n", "e", "d", "_", "t", "o", ".", "e", "m", "a", "i", "l">>, <<"p", "r", "o", "j", "e", "c", "t", ".", "n", "a", "m", "e">>,
                   <<"i", "t", "e", "m", "s", ".", "q", "t", "y">>, <<BT, "t", "a", "b", "S", "u", "b", "t", "a", "s", "k", BT, ".", BT, "q", "t", "y", BT>>, <<BT, "t", "a", "b", "T", "a", "s", "k", BT, ".", BT, "n", "a", "m", "e", BT>>,
                   <<"t", "a", "b", "T", "a", "s", "k", ".", "n", "a", "m", "e">>, <<"n", "o", "f", "i", "e", "l", "d", ".", "x">>, <<"s", "t", "a", "t", "u", "s", ".", "x">>, <<"a", ".", "b", ".", "c">>,
                   <<"i", "t", "e", "m", "s", ".", "q", "t", "y", " ", "a", "s", " ", "q", " ", "a", "s", " ", "r">>, <<"n", "a", "m", "e", ";", " ", "x">>, <<"n", "a", "m", "e", " ", "=", " ", "1", " ", "o", "r", " ", "1">>,
                   <<BT, "t", "a", "b", "T", "a", "s", "k", ".", "n", "a", "m", "e">>, <<"n", "a", "m", "e", "\n">>}}
    \cup {[FilterArg EXCEPT !.t = "list", !.items = <<Filter(3, <<>>, f, o, v)>>] :
            f \in {Col.name, Col.assigned_to}, o \in NESTED_SET_OPERATORS,
            v \in {Str(<<"A">>), Str(<<"B">>), Str(<<"Z">>)}}
    \cup {[FilterArg EXCEPT !.t = "list", !.items = items] : items \in
            {<<Filter(2, <<>>, Col.status, <<>>, Str(<<"O", "p", "e", "n">>))>>,
             <<Filter(5, <<>>, Col.status, Col.eq, PyNone)>>,
             <<Filter(3, <<>>, Col.status, <<"~">>, Str(<<"a">>))>>,
             <<Filter(3, <<>>, Col.status, <<"L", "I", "K", "E">>, PyNone)>>,
             <<Filter(3, <<>>, Col.status, <<">">>, PyNone)>>,
             <<Filter(3, <<>>, Col.status, Col.not_in, PyNone)>>,
             <<[Filter(3, <<>>, Col.status, Col.eq, PyNone)
                    EXCEPT !.field = FilterField(FALSE, Col.status)]>>,
             <<Filter(4, Subtask, Col.qty, <<">">>, Py("int", <<>>, 1, <<>>))>>,
             <<Filter(4, Task, Col.status, Col.eq, Str(<<"O", "p", "e", "n">>))>>,
             <<Filter(4, User, Col.email, Col.eq, Str(<<"a">>))>>,
             <<Filter(4, <<"N", "o", "p", "e">>, Col.qty, Col.eq, Str(<<"a">>))>>,
             <<Filter(4, Subtask, Col.qty, <<">">>, Py("int", <<>>, 1, <<>>)),
               Filter(3, <<>>, <<"i", "t", "e", "m", "s", ".", "q", "t", "y">>, <<"<">>, Py("int", <<>>, 1, <<>>)),
               Filter(3, <<>>, <<"a", "s", "s", "i", "g", "n", "e", "d", "_", "t", "o", ".", "e", "m", "a", "i", "l">>, Col.eq, Str(<<"a">>)),
               Filter(3, <<>>, <<"a", "s", "s", "i", "g", "n", "e", "d", "_", "t", "o", ".", "n", "a", "m", "e">>, Col.eq, Str(<<"a">>))>>,
             <<Filter(3, <<>>, Col.status, Col.eq, Str(<<"O", "p", "e", "n">>)),
               Filter(3, <<>>, <<"n", "a", "m", "e", ";", " ", "x">>, Col.eq, Str(<<"a">>))>>}}

\* order_by and group_by arguments
OrderBys ==
    {PyNone, Py("int", <<>>, 1, <<>>), Str(DefaultOrderBy)}
    \cup {Str(o) : o \in
            {<<>>, <<"n", "a", "m", "e">>, <<"n", "a", "m", "e", " ", "a", "s", "c">>, <<"n", "a", "m", "e", " ", "d", "e", "s", "c">>, <<"n", "a", "m", "e", " ", "A", "S", "C", ",", " ", "s", "t", "a", "t", "u", "s", " ", "D", "E", "S", "C">>,
             <<"n", "a", "m", "e", " ", " ", "a", "s", "c">>, <<"n", "a", "m", "e", "\t", "a", "s", "c">>, <<"n", "a", "m", "e", " ", "a", "s", "c", " ", "x">>, <<"1", " ", "a", "s", "c">>,
             <<BT, "t", "a", "b", "T", "a", "s", "k", BT, ".", BT, "n", "a", "m", "e", BT, " ", "a", "s", "c", ",", ",", " ">>, <<"n", "a", "m", "e", ";", " ", "x">>, <<"n", "a", "m", "e", " ", "u", "p">>,
             <<"n", "a", "m", "e", "\t", "d", "e", "s", "c", "\t", ";", "x">>, <<" ", "n", "a", "m", "e", " ", "a", "s", "c", " ">>, <<"c", "o", "u", "n", "t", "(", "n", "a", "m", "e", ")">>}}

GroupBys ==
    {PyNone, Py("int", <<>>, 1, <<>>),
     Str(<<"s", "t", "a", "t", "u", "s">>), Str(<<"s", "t", "a", "t", "u", "s", ",", " ", "1", ",", " ", BT, "t", "a", "b", "T", "a", "s", "k", BT, ".", BT, "o", "w", "n", "e", "r", BT>>), Str(<<"n", "a", "m", "e", ";", " ", "x">>)}

\* limit and offset arguments
Limits ==
    {PyNone, Str(<<>>), Str(<<"5">>), Py("float", <<>>, 0, <<>>),
     Py("float", <<>>, 1, <<>>), Py("list", <<>>, 0, <<>>),
     Py("list", <<>>, 0, <<PyNone>>), Py("bool", <<>>, 1, <<>>)}
    \cup {Py("int", <<>>, n, <<>>) : n \in -1..MaxLimit}

\* the site of a user with the given role permissions
Sites ==
    {[DefaultSite EXCEPT !.role_permissions = role_permissions,
                         !.user_permissions = user_permissions,
                         !.strict = strict, !.raw = raw, !.shared = shared] :
        role_permissions \in [read : BOOLEAN, select : BOOLEAN,
                              has_if_owner_enabled : BOOLEAN,
                              if_owner : {{}, {"read"}, {"write"}}],
        user_permissions \in
            {<<>>,
             <<[doctype |-> Task, entries |-> <<[doc |-> DocNames[1], applicable_for |-> <<>>]>>]>>,
             <<[doctype |-> User, entries |-> <<[doc |-> DocNames[2], applicable_for |-> <<>>]>>]>>,
             <<[doctype |-> Project, entries |-> <<[doc |-> DocNames[3], applicable_for |-> <<>>]>>]>>,
             <<[doctype |-> Task, entries |-> <<[doc |-> DocNames[1], applicable_for |-> Project]>>]>>,
             <<[doctype |-> User, entries |-> <<[doc |-> DocNames[1], applicable_for |-> Task],
                                                [doc |-> DocNames[2], applicable_for |-> Project]>>]>>,
             <<[doctype |-> User, entries |-> <<[doc |-> DocNames[2], applicable_for |-> Project]>>]>>,
             <<[doctype |-> Task, entries |-> <<[doc |-> DocNames[1], applicable_for |-> <<>>]>>],
               [doctype |-> User, entries |-> <<[doc |-> DocNames[2], applicable_for |-> <<>>],
                                                [doc |-> DocNames[3], applicable_for |-> <<>>]>>]>>},
        strict \in BOOLEAN,
        raw \in {<<>>, <<[Cond EXCEPT !.kind = "raw", !.column = <<"h", "o", "o", "k">>]>>},
        shared \in {Sub(DocNames, 1, n) : n \in 0..MaxShared}}

\* the arguments of a call that gives every clause: with values the code
\* accepts, and with values it rejects
Payloads ==
    {DefaultArgs,
     [DefaultArgs EXCEPT
        !.fields = FieldArg("str", <<"n", "a", "m", "e", ",", " ", "a", "s", "s", "i", "g", "n", "e", "d", "_", "t", "o", ".", "e", "m", "a", "i", "l">>, <<>>),
        !.filters = [FilterArg EXCEPT !.t = "dict", !.items =
                        <<[Filter(2, <<>>, Col.status, <<>>, Str(<<"O", "p", "e", "n">>)) EXCEPT !.t = "entry"]>>],
        !.order_by = Str(<<"n", "a", "m", "e", " ", "a", "s", "c">>), !.group_by = Str(<<"s", "t", "a", "t", "u", "s">>),
        !.limit = Py("int", <<>>, 1, <<>>), !.offset = Py("int", <<>>, 1, <<>>),
        !.distinct = TRUE, !.for_update = TRUE],
     [DefaultArgs EXCEPT
        !.fields = FieldArg("str", <<"n", "a", "m", "e", ";", " ", "D", "R", "O", "P", " ", "T", "A", "B", "L", "E", " ", "x">>, <<>>),
        !.filters = [FilterArg EXCEPT !.t = "list", !.items =
                        <<Filter(3, <<>>, <<"n", "a", "m", "e", ";", " ", "x">>, Col.eq, Str(<<"a">>))>>],
        !.order_by = Str(<<"n", "a", "m", "e", ";", " ", "x">>), !.group_by = Str(<<"n", "a", "m", "e", ";", " ", "x">>),
        !.limit = Py("int", <<>>, -1, <<>>), !.offset = Py("int", <<>>, -1, <<>>)]}

\* a call and the site it runs on
Scenario(call, site) == [args |-> call, env |-> site]

Scenarios ==
    \* every table, mode and entity-level permission
    {Scenario([call EXCEPT !.table = table[1], !.is_table = table[2],
                           !.ignore_permissions = ignore_permissions, !.mode = mode],
              [DefaultSite EXCEPT !.has_select = has[1], !.has_read = has[2],
                                  !.raw = raw]) :
        call \in Payloads,
        table \in {<<Task, FALSE>>, <<<<"T", "a", "s", "k", ";", " ", "x">>, FALSE>>, <<DocType(Task), TRUE>>},
        ignore_permissions \in BOOLEAN,
        mode \in {"select", "update", "insert", "delete"},
        has \in {<<TRUE, FALSE>>, <<FALSE, TRUE>>, <<FALSE, FALSE>>},
        raw \in {<<>>, <<[Cond EXCEPT !.kind = "raw", !.column = <<"h", "o", "o", "k">>]>>}}
    \* field specifications and column permissions
    \cup {Scenario([DefaultArgs EXCEPT !.fields = fields,
                                       !.ignore_permissions = ignore_permissions],
                   [DefaultSite EXCEPT !.permitted = permitted]) :
            fields \in FieldSpecs, ignore_permissions \in BOOLEAN,
            permitted \in PermittedMaps}
    \* filters, after fields that join
    \cup {Scenario([DefaultArgs EXCEPT !.filters = filters,
                                       !.fields = FieldArg("str", fields, <<>>)],
                   DefaultSite) :
            filters \in FilterSpecs,
            fields \in {<<>>, <<"a", "s", "s", "i", "g", "n", "e", "d", "_", "t", "o", ".", "e", "m", "a", "i", "l">>, <<"i", "t", "e", "m", "s", ".", "q", "t", "y">>}}
    \* clauses
    \cup {Scenario([DefaultArgs EXCEPT !.order_by = order_by, !.group_by = group_by],
                   DefaultSite) :
            order_by \in OrderBys, group_by \in GroupBys}
    \cup {Scenario([DefaultArgs EXCEPT !.limit = limit, !.offset = offset],
                   DefaultSite) :
            limit \in Limits, offset \in Limits}
    \cup {Scenario([DefaultArgs EXCEPT !.distinct = distinct, !.for_update = for_update,
                                       !.skip_locked = skip_locked, !.wait = wait],
                   DefaultSite) :
            distinct \in BOOLEAN, for_update \in BOOLEAN,
            skip_locked \in BOOLEAN, wait \in BOOLEAN}
    \* row-level permissions
    \cup {Scenario([DefaultArgs EXCEPT !.ignore_permissions = FALSE, !.user = user,
                                       !.filters = filters], site) :
            user \in {<<>>, <<"b", "o", "b">>}, site \in Sites,
            filters \in {FilterArg, [FilterArg EXCEPT !.t = "criterion"]}}

\* the local variables of a get_query call that is not running: no second
\* call is made on the engine
NoCall ==
    [pc |-> "none", args |-> DefaultArgs, exception |-> "none",
     result |-> NoQuery, log |-> <<>>]

Init ==
    /\ pc = "get_query"
    /\ self = NewEngine
    /\ \E scenario \in Scenarios : args = scenario.args /\ env = scenario.env
    /\ exception = "none"
    /\ result = NoQuery
    /\ log = <<>>
    /\ other = NoCall

Next ==
    \/ GetQuery
    \/ CheckReadPermission
    \/ Build
    \/ ApplyFilters
    \/ ApplyOrderBy
    \/ ApplyLimit
    \/ ApplyOffset
    \/ ApplyDistinct
    \/ ApplyForUpdate
    \/ ApplyGroupBy
    \/ AddPermissionConditions
    \/ Return

Spec == Init /\ [][Next]_vars

---------------------------------------------------------------------------
(* Two threads call get_query on one Engine object.  The arguments and the *)
(* position of a call are local to its thread; the attributes get_query    *)
(* sets on self are shared.  The interpreter switches threads between two  *)
(* statement groups of get_query.                                          *)

\* the running call is suspended and the other call resumes, on the
\* attributes of self as the suspended call left them
Switch ==
    /\ other.pc \notin {"none", "done", "raised"}
    /\ pc' = other.pc
    /\ args' = other.args
    /\ exception' = other.exception
    /\ result' = other.result
    /\ log' = other.log
    /\ other' = [pc |-> pc, args |-> args, exception |-> exception,
                 result |-> result, log |-> log]
    /\ UNCHANGED <<self, env>>

\* the calls the two threads make
ConcurrentCalls ==
    {[call EXCEPT !.ignore_permissions = ignore_permissions] :
        call \in Payloads, ignore_permissions \in BOOLEAN}
    \cup {[DefaultArgs EXCEPT !.table = User, !.mode = "delete",
                              !.user = <<"b", "o", "b">>]}

InitConcurrent ==
    /\ pc = "get_query"
    /\ self = NewEngine
    /\ env = DefaultSite
    /\ exception = "none"
    /\ result = NoQuery
    /\ log = <<>>
    /\ \E first \in ConcurrentCalls, second \in ConcurrentCalls :
            /\ args = first
            /\ other = [NoCall EXCEPT !.pc = "get_query", !.args = second]

NextConcurrent ==
    \/ GetQuery
    \/ CheckReadPermission
    \/ Build
    \/ ApplyFilters
    \/ ApplyOrderBy
    \/ ApplyLimit
    \/ ApplyOffset
    \/ ApplyDistinct
    \/ ApplyForUpdate
    \/ ApplyGroupBy
    \/ AddPermissionConditions
    \/ Return
    \/ Switch

SpecConcurrent == InitConcurrent /\ [][NextConcurrent]_vars

---------------------------------------------------------------------------
(* Properties of get_query: the order of its steps and what it returns.    *)

\* the entries of the log
PermissionChecks == {"has_permission(select)", "has_permission(read)"}

ParsingEvents ==
    {"new_query", "apply_fields", "apply_filters", "apply_order_by", "_validate_group_by"}

ClauseEvents ==
    ParsingEvents \cup {"limit", "offset", "distinct", "for_update"}

PermissionEvents ==
    {"add_permission_conditions", "get_role_permissions", "get_user_permissions",
     "get_permission_query_conditions", "get_shared"}

Logged(event) == \E i \in 1..Len(log) : log[i] = event

\* every entry of the log in first comes before every entry in second
Before(first, second) ==
    \A i, j \in 1..Len(log) : (log[i] \in first /\ log[j] \in second) => i < j

\* C1: for an entity name given as a string, get_query validates the name,
\* then asks has_permission (only when permissions are enforced), then parses
\* fields, filters, order_by and group_by.  A name the identifier pattern
\* refuses ends the call with has_permission never asked; a caller with
\* neither select nor read gets a PermissionError before anything is parsed
\* or validated and before a query exists, in every mode.
C1_ValidateThenCheckThenParse ==
    /\ Before({"validate_doctype"}, PermissionChecks \cup ParsingEvents)
    /\ Before(PermissionChecks, ParsingEvents)
    /\ (~args.is_table /\ pc # "get_query") => log[1] = "validate_doctype"
    /\ (~args.ignore_permissions /\ pc \notin {"get_query", "check_read_permission", "raised"})
            => Logged("has_permission(select)")
    /\ args.ignore_permissions => \A e \in PermissionChecks : ~Logged(e)
    /\ (~args.is_table /\ ~TABLE_NAME_PATTERN(args.table) /\ pc # "get_query")
            => /\ pc = "raised"
               /\ exception = "ValidationError"
               /\ log = <<"validate_doctype">>
    /\ (/\ ~args.is_table /\ TABLE_NAME_PATTERN(args.table)
        /\ ~args.ignore_permissions /\ ~env.has_select /\ ~env.has_read
        /\ pc \notin {"get_query", "check_read_permission"})
            => /\ pc = "raised"
               /\ exception = "PermissionError"
               /\ log = <<"validate_doctype", "has_permission(select)",
                          "has_permission(read)">>
               /\ self.query = NoQuery

\* a delete with clauses the code refuses, by a caller with neither select nor
\* read, ended at the permission check
C1_Witness ==
    /\ pc = "raised"
    /\ exception = "PermissionError"
    /\ ~args.is_table
    /\ args.mode = "delete"
    /\ args.order_by = Str(<<"n", "a", "m", "e", ";", " ", "x">>)
    /\ log = <<"validate_doctype", "has_permission(select)", "has_permission(read)">>

\* C2: the query get_query returns has immutable set; the flag is False from
\* the creation of the query on and is set once, as the last step; a call
\* that raised returned no query.
C2_FrozenAtReturnOnly ==
    /\ self.query.immutable <=> pc = "done"
    /\ pc = "done" => /\ result = self.query
                      /\ result.kind = args.mode
                      /\ log[Len(log)] = "freeze"
                      /\ Cardinality({i \in 1..Len(log) : log[i] = "freeze"}) = 1
    /\ pc # "done" => /\ result = NoQuery
                      /\ ~Logged("freeze")

\* a query with a predicate and a limit was returned
C2_Witness ==
    /\ pc = "done"
    /\ result.immutable
    /\ result.wheres # <<>>
    /\ result.limit # PyNone

\* C3, in every state: add_permission_conditions and the collaborators it asks
\* come after the filters and every clause option and before the freeze, the
\* row-level predicate is the last predicate of the query, and a build that
\* enforces permissions does not reach the freeze without it.
C3_PermissionsAfterClauses ==
    /\ Before(ClauseEvents, PermissionEvents)
    /\ Before(PermissionEvents, {"freeze"})
    /\ \A i \in 1..Len(self.query.wheres) :
            self.query.wheres[i].kind = "permission" => i = Len(self.query.wheres)
    /\ (~args.ignore_permissions /\ pc \in {"freeze", "done"})
            => Logged("add_permission_conditions")

\* C3, in every step: add_permission_conditions changes the query by at most
\* one more predicate, and the step after it changes the immutable flag only.
C3_NothingBetweenInjectionAndFreeze ==
    /\ pc = "add_permission_conditions" =>
            \/ self'.query = self.query
            \/ /\ self.apply_permissions
               /\ Len(self'.query.wheres) = Len(self.query.wheres) + 1
               /\ self'.query.wheres[Len(self'.query.wheres)].kind = "permission"
               /\ self'.query = [self.query EXCEPT !.wheres = self'.query.wheres]
               /\ SubSeq(self'.query.wheres, 1, Len(self.query.wheres)) = self.query.wheres
    /\ pc = "add_permission_conditions" => pc' \in {"freeze", "raised"}
    /\ pc = "freeze" => self'.query = [self.query EXCEPT !.immutable = TRUE]

\* C3: with permission enforcement the row-level predicate is added after
\* every filter predicate and every clause option (order by, limit, offset,
\* distinct, lock, group by), and nothing else changes the query between that
\* and the freeze.
C3_PermissionInjectionIsLast ==
    []C3_PermissionsAfterClauses /\ [][C3_NothingBetweenInjectionAndFreeze]_vars

\* a returned query with every clause, whose row-level predicate follows the
\* predicate of the filter
C3_Witness ==
    /\ pc = "done"
    /\ ~args.ignore_permissions
    /\ Len(result.wheres) = 2
    /\ result.wheres[1].kind = "cmp"
    /\ result.wheres[2].kind = "permission"
    /\ result.orderbys # <<>>
    /\ result.groupbys # <<>>
    /\ result.limit # PyNone
    /\ result.distinct
    /\ result.for_update

---------------------------------------------------------------------------
(* Properties of the column-level and row-level permissions.               *)

\* the list apply_field_permissions returned in the build the state is in
AllowedFields ==
    apply_field_permissions(
        [self EXCEPT !.fields = parse_fields(self, args.fields).val],
        env.permitted).val

\* the build applied field permissions and went on
FieldPermissionsApplied ==
    /\ pc = "apply_filters"
    /\ args.mode = "select"
    /\ self.apply_permissions

\* the column the field names is permitted.  A linked-entity field is judged
\* by its link column in the owning entity when by_link_column, and by its
\* target column in the linked entity otherwise
ColumnPermitted(field, by_link_column) ==
    CASE field.kind = "Field" ->
            field.name \in Range(env.permitted[self.doctype])
      [] field.kind = "LinkTableField" ->
            IF by_link_column
            THEN field.link_fieldname \in Range(env.permitted[self.doctype])
            ELSE field.fieldname \in Range(env.permitted[field.doctype])
      [] field.kind = "ChildTableField" ->
            field.fieldname \in Range(env.permitted[field.doctype])
      [] field.kind = "ChildQuery" ->
            \A f \in Range(field.fields) : f \in Range(env.permitted[field.doctype])
      [] OTHER -> TRUE

\* a field spec of * alone yields the permitted set of the owning entity
StarYieldsPermitted(allowed) ==
    args.fields = FieldArg("str", Col.star, <<>>) =>
        /\ \A i \in 1..Len(allowed) :
                allowed[i].kind = "Field" /\ allowed[i].table = self.table
        /\ {allowed[i].name : i \in 1..Len(allowed)} = Range(env.permitted[self.doctype])

\* C4 as stated: with permissions enforced in select mode, every plain
\* column, linked-entity field, child-entity field and child-query sub-field
\* apply_field_permissions lets through names a column in the permitted set
\* of the entity the column belongs to, and * alone yields exactly the
\* permitted set of the owning entity.
C4_AllowedColumnsPermittedInTheirEntity ==
    FieldPermissionsApplied =>
        /\ \A i \in 1..Len(AllowedFields) : ColumnPermitted(AllowedFields[i], FALSE)
        /\ StarYieldsPermitted(AllowedFields)

\* C4 amended: as stated, but a linked-entity field is let through when its
\* link column is in the permitted set of the owning entity; the permitted
\* set of the linked entity is not consulted.
C4_AllowedColumnsPermitted ==
    FieldPermissionsApplied =>
        /\ self.fields = IF AllowedFields = <<>>
                         THEN <<Field(self.table, Col.name, <<>>)>>
                         ELSE AllowedFields
        /\ \A i \in 1..Len(AllowedFields) : ColumnPermitted(AllowedFields[i], TRUE)
        /\ \A i \in 1..Len(AllowedFields) :
                AllowedFields[i].kind = "LinkTableField" =>
                    \E j \in 1..Len(self.query.joins) :
                        self.query.joins[j].table = DocType(AllowedFields[i].doctype)
        /\ StarYieldsPermitted(AllowedFields)

\* a linked-entity field is selected whose link column is permitted and whose
\* target column is not in the permitted set of the linked entity
C4_Witness ==
    /\ FieldPermissionsApplied
    /\ \E i \in 1..Len(self.fields) :
        /\ self.fields[i].kind = "LinkTableField"
        /\ self.fields[i].link_fieldname \in Range(env.permitted[self.doctype])
        /\ self.fields[i].fieldname \notin Range(env.permitted[self.fields[i].doctype])
        /\ \E j \in 1..Len(self.query.selects) :
                self.query.selects[j].name = self.fields[i].fieldname

\* the role permissions require the owner constraint: if-owner is enabled,
\* if_owner is not empty and neither select nor read is granted outside it
OwnerRequired ==
    /\ env.role_permissions.has_if_owner_enabled
    /\ env.role_permissions.if_owner # {}
    /\ ~(env.role_permissions.select /\ "select" \notin env.role_permissions.if_owner)
    /\ ~(env.role_permissions.read /\ "read" \notin env.role_permissions.if_owner)

\* the row-level constraints of the query, none when it has no row-level
\* predicate
PermissionPredicates ==
    SelectSeq(self.query.wheres, LAMBDA p : p.kind = "permission")

\* C5: when the role permissions require the owner constraint, the row-level
\* predicate holds owner = acting user, OR-ed with name IN the share list
\* when that is not empty; get_shared is asked, and no user-permission
\* constraint is computed or added.
C5_OwnerConstraint ==
    (self.apply_permissions /\ OwnerRequired /\ Logged("add_permission_conditions")) =>
        /\ pc \in {"freeze", "done"}
        /\ Len(PermissionPredicates) = 1
        /\ PermissionPredicates[1].conditions =
                <<[Cond EXCEPT !.kind = "owner", !.column = Col.owner,
                               !.user = IF args.user # <<>> THEN args.user
                                        ELSE session_user]>>
                \o env.raw
        /\ PermissionPredicates[1].shared = env.shared
        /\ Logged("get_shared")
        /\ ~Logged("get_user_permissions")

\* the owner constraint of the user bob, with a share list, for a user who has
\* user-permission entries
C5_Witness ==
    /\ pc = "done"
    /\ self.apply_permissions
    /\ OwnerRequired
    /\ self.user = <<"b", "o", "b">>
    /\ env.shared # <<>>
    /\ env.user_permissions # <<>>
    /\ Len(result.wheres) = 1
    /\ result.wheres[1].conditions[1].kind = "owner"
    /\ result.wheres[1].shared = env.shared

\* C6: a build that produces no row-level constraint (no owner constraint, no
\* user-permission constraint, no hook or scripted predicate) adds no
\* predicate to the query, whatever the user-permission entries and the share
\* list are.
C6_NoConstraintNoPredicate ==
    (/\ self.apply_permissions
     /\ Logged("add_permission_conditions")
     /\ pc \in {"freeze", "done"}
     /\ ~OwnerRequired
     /\ env.raw = <<>>
     /\ get_user_permission_conditions(self, env.role_permissions,
                                       env.user_permissions, env.strict) = Returned(<<>>))
        => PermissionPredicates = <<>>

\* the docs of the entries of the target entity of df that apply: an entry
\* applies when its applicable_for is not set or is the entity of the query
ApplicableDocs(df) ==
    Map(LAMBDA permission : permission.doc,
        SelectSeq(UserPermissionsFor(env.user_permissions, df.options),
                  LAMBDA permission : permission.applicable_for \in {<<>>, self.doctype}))

\* the user-permission constraints of the query
UserPermissionConditions ==
    SelectSeq(Concat(Map(LAMBDA p : p.conditions, PermissionPredicates)),
              LAMBDA c : c.kind = "user_permission")

\* C7: when the owner constraint is not required and read or select is
\* granted, get_user_permission_conditions does not raise, whatever the
\* user-permission entries are, also with applicable_for set; name and each
\* link field not flagged ignore_user_permissions whose target entity has
\* applicable docs gets exactly one constraint, field IN docs under
\* apply_strict_user_permissions and field IS NULL OR field IN docs
\* otherwise; get_shared is asked exactly when the user has user-permission
\* entries.
C7_UserPermissionConditions ==
    (self.apply_permissions /\ Logged("get_user_permissions")) =>
        /\ pc \in {"freeze", "done"}
        /\ Logged("get_shared") <=> env.user_permissions # <<>>
        /\ UserPermissionConditions =
            Concat(Map(LAMBDA df :
                        IF df.ignore_user_permissions \/ ApplicableDocs(df) = <<>>
                        THEN <<>>
                        ELSE <<[Cond EXCEPT !.kind = "user_permission",
                                            !.column = df.fieldname,
                                            !.docs = ApplicableDocs(df),
                                            !.lenient = ~env.strict]>>,
                       get_doctype_link_fields(self)))

---------------------------------------------------------------------------
(* Properties of the validation of fields, filters and order_by.           *)

\* _validate_select_field refuses the string
InvalidSelectField(field) ==
    /\ field # Col.star
    /\ ~IsDigit(field)
    /\ ~ALLOWED_FIELD_PATTERN(field)
    /\ ~FUNCTION_CALL_PATTERN(field)

\* C8: when a select field string (a piece of a string spec between commas,
\* or a string of a list spec) is not *, not all digits and matches neither
\* the allowed-field pattern nor the function-call pattern, get_query raises
\* a PermissionError, and the query then has no select term, no join and no
\* predicate.
C8_InvalidSelectFieldRejected ==
    (/\ Logged("apply_fields")
     /\ args.fields.t \in {"str", "list"}
     /\ \E i \in 1..Len(FieldItems(args.fields)) :
            /\ FieldItems(args.fields)[i].t = "str"
            /\ InvalidSelectField(FieldItems(args.fields)[i].s))
        => /\ pc = "raised"
           /\ exception = "PermissionError"
           /\ log[Len(log)] = "apply_fields"
           /\ self.query = NewQuery("select", self.table)
           /\ result = NoQuery

\* the field spec name; DROP TABLE x was refused
C8_Witness ==
    /\ pc = "raised"
    /\ exception = "PermissionError"
    /\ args.fields = FieldArg("str", <<"n", "a", "m", "e", ";", " ", "D", "R", "O", "P", " ", "T", "A", "B", "L", "E", " ", "x">>, <<>>)
    /\ log[Len(log)] = "apply_fields"
    /\ self.query.selects = <<>>

\* one of the three outcomes of a filter field with a character outside the
\* identifier alphabet: prepared is what _validate_and_prepare_filter_field
\* returned, dynamic_field what the resolver returned for the field
FieldOutcome(field, prepared, dynamic_field) ==
    \/ prepared.exc = "PermissionError"
    \/ /\ prepared.exc = "none"
       /\ dynamic_field.exc = "none"
       /\ IF dynamic_field.val # <<>>
          THEN /\ is_joined(prepared.val.me.query, dynamic_field.val[1].table)
               /\ prepared.val.field.table = dynamic_field.val[1].table
               /\ prepared.val.field.name = dynamic_field.val[1].fieldname
          ELSE /\ ALLOWED_SQL_FIELD_PATTERN(field)
               /\ prepared.val.field.name = field
               /\ prepared.val.me = self

\* C9: for a filter whose field is a string with a character outside the
\* identifier alphabet, _validate_and_prepare_filter_field resolves the field
\* with the dynamic field resolver and applies its join, or uses the field
\* as a column because it matches the clause-field pattern, or raises a
\* PermissionError; it raises no other exception.
C9_FilterFieldThreeOutcomes ==
    pc = "apply_filters" =>
        \A i \in 1..Len(FilterCalls(args.filters)) :
            (/\ FilterCalls(args.filters)[i].do = "filter"
             /\ FilterCalls(args.filters)[i].filter.field.is_str
             /\ SPECIAL_CHAR_PATTERN(FilterCalls(args.filters)[i].filter.field.s))
                => FieldOutcome(
                        FilterCalls(args.filters)[i].filter.field.s,
                        _validate_and_prepare_filter_field(self,
                            FilterCalls(args.filters)[i].filter.field,
                            FilterCalls(args.filters)[i].filter.doctype),
                        DynamicTableField_parse(
                            FilterCalls(args.filters)[i].filter.field.s, self.doctype))

\* C10: for an order_by string _validate_order_by accepts, the orderings
\* apply_order_by attaches have the field token that was validated and the
\* direction of the validated direction token, whatever whitespace separates
\* the tokens and however many tokens a declaration has.
C10_OrderByAppliesValidatedTokens ==
    (/\ Logged("apply_order_by")
     /\ args.order_by.t = "str"
     /\ args.order_by.s \notin {<<>>, DefaultOrderBy}
     /\ _validate_order_by(args.order_by).exc = "none")
        => self.query.orderbys =
            Map(LAMBDA declaration : AppliedOrdering(SplitWhitespace(declaration)),
                Declarations(args.order_by.s))

---------------------------------------------------------------------------
(* Properties of limit and offset, hierarchy filters and joins.            *)

\* a limit or offset that is given and is not a non-negative integer: a
\* negative integer, a string, a float or a list
NotANaturalNumber(v) ==
    \/ v.t \in {"str", "float", "list"}
    \/ v.t = "int" /\ v.n < 0

\* the statement groups after the one named
StepsAfter(step) ==
    {Steps[i] : i \in {j \in 1..Len(Steps) :
                        \E k \in 1..(j - 1) : Steps[k] = step}}

\* C11: a limit or offset that is given and is not a non-negative integer (a
\* negative integer, a string, also the empty one, a float, also 0.0, a
\* list) makes get_query raise TypeError, and no limit or offset clause is
\* attached.
C11_LimitOffsetTypeError ==
    /\ NotANaturalNumber(args.limit) =>
            /\ pc \notin StepsAfter("limit")
            /\ self.query.limit = PyNone
            /\ (pc = "raised" /\ log # <<>> /\ log[Len(log)] = "limit")
                    => exception = "TypeError"
    /\ NotANaturalNumber(args.offset) =>
            /\ pc \notin StepsAfter("offset")
            /\ self.query.offset = PyNone
            /\ (pc = "raised" /\ log # <<>> /\ log[Len(log)] = "offset")
                    => exception = "TypeError"


\* the build just applied filters that are one hierarchy filter
\* [field, operator, docname] whose reference node is not in the table of the
\* reference entity
MissingNodeFilter(call) ==
    /\ call.do = "filter"
    /\ call.filter.operator \in NESTED_SET_OPERATORS
    /\ call.filter.field.is_str
    /\ call.filter.value.t = "str"
    /\ \A i \in 1..Len(TreeRows(IF get_field(self.doctype, call.filter.field.s) # NoField
                                THEN get_field(self.doctype, call.filter.field.s).options
                                ELSE self.doctype)) :
            TreeRows(IF get_field(self.doctype, call.filter.field.s) # NoField
                     THEN get_field(self.doctype, call.filter.field.s).options
                     ELSE self.doctype)[i].name # call.filter.value.s

\* C12: when the reference node of a hierarchy filter is not in the reference
\* table, get_nested_set_hierarchy_result returns an empty list for each of
\* the five hierarchy operators without raising, so the predicate attached is
\* IN ('') or NOT IN ('').
C12_MissingNodeMatchesNothing ==
    (/\ log # <<>> /\ log[Len(log)] = "apply_filters"
     /\ Len(FilterCalls(args.filters)) = 1
     /\ MissingNodeFilter(FilterCalls(args.filters)[1]))
        => /\ pc = "apply_order_by"
           /\ Len(self.query.wheres) = 1
           /\ self.query.wheres[1].kind = "cmp"
           /\ self.query.wheres[1].operator \in {Col.in, Col.not_in}
           /\ self.query.wheres[1].value = Py("list", <<>>, 0, <<Str(<<>>)>>)

\* C13: joins are idempotent.  In every state the AST under construction and
\* the AST returned have at most one join per target table, and a step never
\* changes or removes a join the AST already has: a join of an already joined
\* target, with the same or with another join predicate, leaves the joins as
\* they are.
C13_OneJoinPerTable ==
    /\ \A i, j \in 1..Len(self.query.joins) :
            self.query.joins[i].table = self.query.joins[j].table => i = j
    /\ \A i, j \in 1..Len(result.joins) :
            result.joins[i].table = result.joins[j].table => i = j

C13_JoinsOnlyGrow ==
    [][pc # "get_query" =>
            /\ Len(self.query.joins') >= Len(self.query.joins)
            /\ \A i \in 1..Len(self.query.joins) :
                    self.query.joins'[i] = self.query.joins[i]]_vars

C13_JoinsIdempotent == []C13_OneJoinPerTable /\ C13_JoinsOnlyGrow

\* two link columns of Task reach User: the second join request, whose
\* predicate would be on manager, leaves the join on assigned_to alone
C13_Witness ==
    /\ pc = "done"
    /\ args.fields = FieldArg("str", <<"a", "s", "s", "i", "g", "n", "e", "d", "_", "t", "o", ".", "e", "m", "a", "i", "l", ",", " ", "m", "a", "n", "a", "g", "e", "r", ".", "n", "a", "m", "e">>, <<>>)
    /\ Len(result.selects) = 2
    /\ Len(result.joins) = 1
    /\ result.joins[1].table = DocType(User)
    /\ result.joins[1].column = Col.assigned_to

\* the table get_query resolves from the table argument of the running call
OwnTable == IF args.is_table THEN args.table ELSE DocType(args.table)

\* the attributes of self are the ones the running call wrote at lines 76-93
OwnAttributes ==
    /\ self.user = IF args.user # <<>> THEN args.user ELSE session_user
    /\ self.parent_doctype = <<>>
    /\ self.apply_permissions = ~args.ignore_permissions
    /\ self.doctype = IF args.is_table THEN get_doctype_name(args.table) ELSE args.table
    /\ self.table = OwnTable

\* C14: when two get_query calls on one Engine object interleave, the user,
\* parent entity, permission flag and table a call reads after its first
\* statement group are the ones that call wrote, the query under
\* construction it reads after it created it is a query of its own mode on
\* its own table, and so is the AST it returns.
C14_CallReadsWhatItWrote ==
    /\ pc \in StepsAfter("get_query") => OwnAttributes
    /\ pc \in StepsAfter("build") =>
            /\ self.query.kind = args.mode
            /\ self.query.table = OwnTable
    /\ pc = "done" =>
            /\ result.kind = args.mode
            /\ result.table = OwnTable

\* a bare dotted reference a.b: one dot, no alias, no quote, no list, no call
BareDotted(s) ==
    /\ Len(Split(s, Col.dot)) = 2
    /\ \A i \in 1..Len(s) : s[i] \notin {BT, "\"", ",", "(", " "}

\* the prefix of the bare dotted reference is a Link field or a
\* child-collection field of the entity
PrefixJoins(s, doctype) ==
    \E i \in 1..Len(MetaFields(doctype)) :
        /\ MetaFields(doctype)[i].fieldname = Split(s, Col.dot)[1]
        /\ MetaFields(doctype)[i].fieldtype \in {"Link"} \cup table_fields

\* C15: a field specification that is one bare dotted reference a.b whose
\* prefix is not a Link field or child-collection field of the owning entity,
\* a field of another type or no field of the metadata, does not raise in
\* DynamicTableField.parse, which has the only statement of apply_fields that
\* can raise AttributeError; when no permission filtering applies, the
\* outcome of apply_fields is the outcome of parse_string_field on the
\* reference: its plain column is the field list, or its error is raised.
C15_UnknownPrefixFallsThrough ==
    (/\ args.mode = "select"
     /\ args.fields.t = "str"
     /\ BareDotted(args.fields.s)
     /\ ~PrefixJoins(args.fields.s, self.doctype)
     /\ log # <<>> /\ log[Len(log)] = "apply_fields")
        => /\ exception # "AttributeError"
           /\ args.ignore_permissions =>
                IF parse_string_field(self, args.fields.s).exc = "none"
                THEN /\ pc = "apply_filters"
                     /\ self.fields = parse_string_field(self, args.fields.s).val
                ELSE /\ pc = "raised"
                     /\ exception = parse_string_field(self, args.fields.s).exc

\* the filters argument is a list of one 4-element filter on another entity
\* than the owning entity
OtherEntityFilter ==
    /\ Len(FilterCalls(args.filters)) = 1
    /\ FilterCalls(args.filters)[1].do = "filter"
    /\ FilterCalls(args.filters)[1].filter.len = 4
    /\ FilterCalls(args.filters)[1].filter.doctype # self.doctype

\* the AST has the left join of a child table of the owning entity:
\* table.parent = owner.name AND table.parenttype = owning entity
ChildJoined(query, table) ==
    \E i \in 1..Len(query.joins) :
        /\ query.joins[i].table = table
        /\ query.joins[i].kind = "child"
        /\ query.joins[i].main_table = self.table
        /\ query.joins[i].column = Col.name
        /\ query.joins[i].parenttype = self.doctype

\* C16: when the predicate of a 4-element filter [entity, field, operator,
\* value] on another entity than the owning entity is attached, the AST has
\* the table of that entity left-joined on parent = owner.name AND
\* parenttype = owning entity; and in every state, a predicate of the AST on
\* a table other than the owning entity's is on a joined table.
C16_OtherEntityFilterJoins ==
    /\ (/\ OtherEntityFilter
        /\ log # <<>> /\ log[Len(log)] = "apply_filters"
        /\ self.query.wheres # <<>>)
            => ChildJoined(self.query,
                           DocType(FilterCalls(args.filters)[1].filter.doctype))
    /\ \A i \in 1..Len(self.query.wheres) :
            \/ self.query.wheres[i].kind \notin {"cmp", "isnull"}
            \/ self.query.wheres[i].table = self.table
            \/ \E j \in 1..Len(self.query.joins) :
                    self.query.joins[j].table = self.query.wheres[i].table

\* no child query of the sequence is for the field key
NoChildQueryFor(objects, key) ==
    \A i \in 1..Len(objects) :
        objects[i].kind = "ChildQuery" =>
            objects[i].initialized /\ objects[i].fieldname # key

\* C17: when the field specification has a mapping {key: sub-fields} whose
\* key is a field of the owning entity that is not of a child-collection
\* type, apply_fields ends without error, with and without permission
\* enforcement, and the key has no child query in the resolved field list
\* and none among the pending child queries of the AST.
C17_NonCollectionKeyDropped ==
    \A i \in 1..Len(args.fields.items) :
        (/\ args.mode = "select"
         /\ args.fields.t = "list"
         /\ args.fields.items[i].t = "dict"
         /\ Len(args.fields.items[i].items) = 1
         /\ args.fields.items[i].items[1].t = "list"
         /\ get_field(self.doctype, args.fields.items[i].items[1].s) # NoField
         /\ get_field(self.doctype, args.fields.items[i].items[1].s).fieldtype
                \notin table_fields
         /\ log # <<>> /\ log[Len(log)] = "apply_fields")
            => /\ pc = "apply_filters"
               /\ NoChildQueryFor(self.fields, args.fields.items[i].items[1].s)
               /\ NoChildQueryFor(self.query.child_queries,
                                  args.fields.items[i].items[1].s)

\* the filters argument is one filter with the value None and an operator of
\* the operator map that is not a nested-set operator
NoneValueFilter ==
    /\ Len(FilterCalls(args.filters)) = 1
    /\ FilterCalls(args.filters)[1].do = "filter"
    /\ FilterCalls(args.filters)[1].filter.value = PyNone
    /\ Lower(FilterCalls(args.filters)[1].filter.operator) \in OPERATOR_MAP
    /\ FilterCalls(args.filters)[1].filter.operator \notin NESTED_SET_OPERATORS

\* C18: a filter with the value None whose field resolves to a column, so
\* that apply_filters ends without error, attaches exactly one predicate,
\* column IS NULL, whatever operator of the operator map that is not a
\* nested-set operator the filter gives: "=", "!=", "like", ">", "not in".
C18_NoneValueIsNull ==
    (/\ NoneValueFilter
     /\ pc = "apply_order_by")
        => /\ Len(self.query.wheres) = 1
           /\ self.query.wheres[1].kind = "isnull"
           /\ self.query.wheres[1].value = PyNone
           /\ self.query.wheres[1].operator = <<>>

\* status != None attached status IS NULL
C18_Witness ==
    /\ NoneValueFilter
    /\ FilterCalls(args.filters)[1].filter.operator = <<"!", "=">>
    /\ pc = "apply_order_by"
    /\ self.query.wheres =
            <<[Pred EXCEPT !.kind = "isnull", !.table = self.table,
                           !.column = Col.status]>>

=============================================================================
